---------------------------- MODULE Spec2Model ----------------------------
(***************************************************************************)
(* Model of downzer: the bounded-concurrency execution engine              *)
(* (Downzer::execute_download_task), the task state store                  *)
(* (Downzer.tasks, an RwLock<HashMap<u32, TaskInfo>>), the control-protocol *)
(* server (run_ipc_server / handle_client / handle_command) and the part    *)
(* of main that wires them together.                                        *)
(*                                                                         *)
(* Every access to the store is made under its read or write lock and no    *)
(* await or blocking call is made while the lock is held, so each locked    *)
(* section is one atomic action of the model.                               *)
(***************************************************************************)
EXTENDS Integers, Sequences, FiniteSets, TLC

(***************************************************************************)
(* Bounds of the model.                                                    *)
(***************************************************************************)
\* largest number of resolved targets (urls.len()) explored
MaxN == 2
\* largest --max-concurrent explored (0 is explored too)
MaxK == 2
\* largest number of accepted control connections whose handler thread has
\* not yet read its command
MaxConns == 1

(***************************************************************************)
(* TaskStatus (core/task.rs): the enum's variants, by discriminant.         *)
(***************************************************************************)
Queued == 0
Running == 1
Paused == 2
Completed == 3
Failed == 4
Stopped == 5

TaskStatus == {Queued, Running, Paused, Completed, Failed, Stopped}

\* TaskStatus::to_string
to_string(s) ==
    CASE s = Queued -> "Queued"
      [] s = Running -> "Running"
      [] s = Paused -> "Paused"
      [] s = Completed -> "Completed"
      [] s = Failed -> "Failed"
      [] s = Stopped -> "Stopped"

\* the ids a control command can name: the id main allocates, and one more
TaskIds == {1, 2}

\* the positional URL template argument (cli.url); its text plays no role here
url_template == "http://x/FUZZW1"

\* length in bytes of the body of a successful response
PayloadLen == 2

\* longest cli.wordlist main expands
MaxWords == 3
\* longest token sequence handed to process_wordlists
MaxArgs == 5
\* most tuples a shuffle is followed through
MaxShuffle == 3
\* longest tuple of plain values process_url_template is given
MaxArity == 2
\* most combinations process_url_template is given
MaxCombos == 2
\* length of the long tuples it is given, for the two-digit placeholder
WideArity == 10
\* width in bits of the task id counter while allocations are followed to its end
IdBits == 3
\* largest number of targets of a batch that runs without a control server
MaxUnits == 3
\* tasks allocating an id at the same time
MaxAllocators == 2

(***************************************************************************)
(* State.                                                                  *)
(***************************************************************************)
VARIABLES
    ipc_flag,       \* cli.add || cli.queue
    N,              \* urls.len()
    max_concurrent, \* cli.max_concurrent
    mainpc,         \* position of main / download::execute / execute_download_task
    next_task_id,   \* Downzer.next_task_id
    task_id,        \* the id main allocated (0 before allocation)
    tasks,          \* Downzer.tasks: id -> TaskInfo
    shutdown,       \* the AtomicBool shared by main, Ctrl+C handler and server
    server,         \* position of the run_ipc_server thread
    conns,          \* accepted connections whose handler has not run yet
    last_resp,      \* the response the most recent handler wrote
    permits,        \* permits available in the batch's semaphore
    spawned,        \* number of units spawned so far (loop index of the for loop)
    upc,            \* per unit: position inside the spawned async block
    res,            \* per unit: result of download_file
    ret,            \* per unit: value the unit's task returned (None or Some(tuple))
    seen,           \* per unit: the status its cancellation check read
    written,        \* bytes the units have written to files under outdir
    successful,     \* webrequest::execute: its counter of successful requests
    failed,         \* webrequest::execute: its counter of failed requests
    joined,         \* number of handles awaited so far
    stats,          \* the Stats accumulator of execute_download_task
    stop_active,    \* history: a Stop hit the task mid-batch, no Pause/Resume since
    resumed,        \* history: a Resume hit the task while Paused, no status write since
    malformed,      \* history: a handler thread got a line that does not decode
    cl_pc,          \* the command-line client process: "idle", "ready", "sent", "done"
    cl_cmd,         \* client: the IpcCommand of its subcommand
    cl_chan,        \* client: what the control channel does for this invocation
    cl_result,      \* client: what send_command returned
    cl_out,         \* client: the line main printed for the result
    expc,           \* position of main in the expansion of its arguments
    range,          \* cli.range
    wordlist,       \* cli.wordlist
    parallel,       \* cli.parallel
    random,         \* cli.random
    all_items,      \* main: the lists handed to generate_combinations
    combinations,   \* main: what generate_combinations returned
    processed,      \* what process_wordlists returned for cli.wordlist
    template,       \* process_url_template: the URL template
    exclude,        \* process_url_template: cli.exclude
    urls,           \* process_url_template: the targets it returned
    alloc_pc,       \* per allocator: position inside the id allocation block
    alloc_id,       \* per allocator: its local `id`
    lock_holder,    \* who holds the write lock of next_task_id (0: nobody)
    alloc_log,      \* history: the ids handed out, in order
    rwlock,         \* the RwLock of Downzer.tasks: its writer (0: none) and readers
    handlers,       \* per handler thread: its position, command, loop index, response
    stable          \* history: the store as the last write guard left it

\* a client invocation is a process of its own
clientvars == <<cl_pc, cl_cmd, cl_chan, cl_result, cl_out>>
\* main's expansion of the range and wordlist arguments
expandvars == <<expc, range, wordlist, parallel, random, all_items, combinations,
                processed>>
\* the resolution of the combinations into targets
tplvars == <<template, exclude, urls>>
\* the allocators of task ids
allocvars == <<alloc_pc, alloc_id, lock_holder, alloc_log>>
\* what is fixed while a batch runs
webvars == <<successful, failed>>
\* the handler threads of two connections and the lock they share
lockvars == <<rwlock, handlers, stable>>
cfgvars == <<ipc_flag, N, max_concurrent, clientvars, expandvars, tplvars, allocvars,
             webvars, lockvars>>
mainvars == <<mainpc, next_task_id, task_id>>
srvvars == <<server, conns, last_resp>>
unitvars == <<permits, spawned, upc, res, ret, seen, written>>
joinvars == <<joined, stats>>
histvars == <<stop_active, resumed, malformed>>

vars == <<cfgvars, mainvars, tasks, shutdown, srvvars, unitvars, joinvars, histvars>>

Units == 1..N

None == [some |-> FALSE]

\* a handle whose value the join loop has taken
Taken == [some |-> FALSE, taken |-> TRUE]

NoResult == [kind |-> "none"]

\* Stats::new
StatsNew == [total_bytes |-> 0, downloaded |-> 0, ignored |-> 0, errors |-> 0, not_found |-> 0]


(***************************************************************************)
(* Downzer::download_file, as a function of what the network returns.      *)
(***************************************************************************)
\* what one GET can produce: whether send() succeeded, the HTTP status, the
\* Content-Type header, the Content-Length header (0 when absent) and
\* whether reading the body and writing the file succeeded
Responses ==
    [sent : BOOLEAN, status : {200, 404, 500}, ctype : {"image/png", "text/html"},
     length_known : BOOLEAN, body_len : {0, PayloadLen}, io_ok : BOOLEAN]

\* Response::content_length().unwrap_or(0): the size of the body when the
\* response declares it, 0 when it does not (chunked transfer)
content_length(rsp) == IF rsp.length_known THEN rsp.body_len ELSE 0

\* str::contains on the header values and filter entries that occur here
ctype_contains(header, ct) ==
    <<header, ct>> \in {<<"image/png", "image">>, <<"image/png", "png">>,
                        <<"text/html", "text">>, <<"text/html", "html">>}

\* StatusCode::is_success
is_success(code) == code >= 200 /\ code <= 299

Ok(size) == [kind |-> "ok", size |-> size]

\* an error message is kept as the set of the marker words ("NOT_FOUND",
\* "IGNORED") it contains, which is all the engine reads of it; the messages
\* of transport, HTTP-status and I/O errors contain neither (the targets
\* explored do not spell a marker word themselves)
Err(msg) == [kind |-> "err", msg |-> msg]

download_file(rsp, content_types) ==
    IF ~rsp.sent THEN Err({})
    ELSE IF rsp.status = 404 THEN Err({"NOT_FOUND"})
    ELSE IF ~is_success(rsp.status) THEN Err({})
    ELSE IF content_types # {} /\ ~(\E ct \in content_types : ctype_contains(rsp.ctype, ct))
         THEN Err({"IGNORED"})
    ELSE IF ~rsp.io_ok THEN Err({})
    ELSE Ok(content_length(rsp))

\* main.rs 296-301: the filter list main parses from --content-type, for a
\* run started with `-c image`; nothing reads it afterwards
cli_content_types == {"image"}

\* downzer.rs 282-286: bytes.len() bytes are written to dest by a call that
\* gets as far as write_all
bytes_written(rsp, content_types) ==
    IF download_file(rsp, content_types).kind = "ok" THEN rsp.body_len ELSE 0

\* modes/download.rs: the filter list handed to execute_download_task
download_content_types == {}

\* every result download_file can hand to a unit of the batch
DownloadResults == {download_file(rsp, download_content_types) : rsp \in Responses}

\* every outcome of one call of download_file: what it returns and the
\* number of bytes it wrote
DownloadOutcomes ==
    {[result |-> download_file(rsp, download_content_types),
      bytes |-> bytes_written(rsp, download_content_types)] : rsp \in Responses}

\* String::contains on an error message, for a marker word
msg_contains(msg, word) == word \in msg

Some(t) == [some |-> TRUE, t |-> t]

\* mutant: a unit whose download failed returns nothing
unit_result_none_on_error(r) ==
    IF r.kind = "ok" THEN Some(<<r.size, 1, 0, 0, 0>>) ELSE None

\* the value a unit that ran its download returns:
\* Some((bytes, downloaded, ignored, errors, not_found))
unit_result(r) ==
    IF r.kind = "ok" THEN Some(<<r.size, 1, 0, 0, 0>>)
    ELSE IF msg_contains(r.msg, "NOT_FOUND") THEN Some(<<0, 0, 1, 0, 1>>)
    ELSE IF msg_contains(r.msg, "IGNORED") THEN Some(<<0, 0, 1, 0, 0>>)
    ELSE Some(<<0, 0, 0, 1, 0>>)

\* mutant: the join loop drops the byte count of a unit
stats_add_no_bytes(st, r) ==
    IF r.some
    THEN [st EXCEPT !.downloaded = @ + r.t[2], !.ignored = @ + r.t[3],
                    !.errors = @ + r.t[4], !.not_found = @ + r.t[5]]
    ELSE st

\* the body of the join loop: handle.await matched against Ok(Some(..))
stats_add(st, r) ==
    IF r.some
    THEN [total_bytes |-> st.total_bytes + r.t[1],
          downloaded |-> st.downloaded + r.t[2],
          ignored |-> st.ignored + r.t[3],
          errors |-> st.errors + r.t[4],
          not_found |-> st.not_found + r.t[5]]
    ELSE st

(***************************************************************************)
(* The task store.                                                         *)
(***************************************************************************)
\* TaskInfo built by main (start_time plays no role)
TaskInfo(id, total) ==
    [id |-> id, url_template |-> url_template, total |-> total, completed |-> 0,
     status |-> Running]

\* Downzer::add_task: HashMap::insert
add_task(t, task) ==
    [i \in DOMAIN t \cup {task.id} |-> IF i = task.id THEN task ELSE t[i]]

\* mutant: an absent id gets a task of its own (entry().or_insert style)
set_task_status_insert(t, id, st) ==
    [i \in DOMAIN t \cup {id} |->
        IF i = id
        THEN IF id \in DOMAIN t THEN [t[id] EXCEPT !.status = st]
             ELSE [id |-> id, url_template |-> "", total |-> 0, completed |-> 0,
                   status |-> st]
        ELSE t[i]]

\* mutant: a task that is Completed or Stopped keeps its status
set_task_status_unless_terminal(t, id, st) ==
    IF id \in DOMAIN t /\ t[id].status \notin {Completed, Stopped}
    THEN [t EXCEPT ![id].status = st] ELSE t

\* Downzer::set_task_status
set_task_status(t, id, st) ==
    IF id \in DOMAIN t THEN [t EXCEPT ![id].status = st] ELSE t

\* mutant: a unit counts itself twice
inc_completed_twice(t, id) ==
    IF id \in DOMAIN t THEN [t EXCEPT ![id].completed = @ + 2] ELSE t

\* mutant: the unit that brings completed up to total marks the task Completed
inc_completed_autocomplete(t, id) ==
    IF id \in DOMAIN t
    THEN [t EXCEPT ![id].completed = @ + 1,
                   ![id].status = IF t[id].completed + 1 = t[id].total
                                  THEN Completed ELSE @]
    ELSE t

\* mutant: an increment that finds completed already advanced is lost
inc_completed_lost(t, id) ==
    IF id \in DOMAIN t /\ t[id].completed = 0
    THEN [t EXCEPT ![id].completed = @ + 1] ELSE t

\* mutant: a unit that finds the task Stopped does not count itself
inc_completed_unless_stopped(t, id) ==
    IF id \in DOMAIN t /\ t[id].status # Stopped
    THEN [t EXCEPT ![id].completed = @ + 1] ELSE t

\* the guarded `t.completed += 1` of a unit
inc_completed(t, id) ==
    IF id \in DOMAIN t THEN [t EXCEPT ![id].completed = @ + 1] ELSE t

\* mutant: the cancellation check never abandons a unit
is_stopped_never(t, id) == FALSE

\* mutant: the cancellation check abandons only while nothing has been counted
is_stopped_unless_counted(t, id) ==
    id \in DOMAIN t /\ t[id].status = Stopped /\ t[id].completed = 0

\* mutant: the cancellation check abandons the units of a Paused task as well
is_stopped_or_paused(t, id) == id \in DOMAIN t /\ t[id].status \in {Stopped, Paused}

\* what the cancellation check reads: the task's status, or nothing when
\* tasks_lock.get(&task_id) is None
NotRead == [read |-> FALSE]
StatusRead(st) == [read |-> TRUE, present |-> TRUE, status |-> st]
status_read(t, id) ==
    IF id \in DOMAIN t THEN StatusRead(t[id].status) ELSE [read |-> TRUE, present |-> FALSE]

\* the cancellation check of a unit: the task is present and Stopped
is_stopped(t, id) == id \in DOMAIN t /\ t[id].status = Stopped

\* mutant: permits are handed out only once all of them are back
sem_available_all_back(p) == p = max_concurrent

\* mutant: a unit proceeds without waiting for a permit
sem_available_nogate(p) == TRUE

\* Semaphore::acquire can complete
sem_available(p) == p > 0

\* mutant: a returning unit keeps its permit
sem_release_leak(p) == p

\* the permit count after a unit's SemaphorePermit is dropped
sem_release(p) == p + 1

\* handle_command, Stop/Pause/Resume: `for id in ids { get_mut(id).status = st }`
RECURSIVE set_status_each(_, _, _)
set_status_each(t, ids, st) ==
    IF ids = <<>> THEN t
    ELSE set_status_each(set_task_status(t, Head(ids), st), Tail(ids), st)

\* mutant: the entry carries the status the task was added with
task_entry_initial(t, id) == <<id, to_string(Running), t[id].url_template>>

\* one (id, status text, template) entry of a TaskList response
task_entry(t, id) == <<id, to_string(t[id].status), t[id].url_template>>

\* IpcResponse
RespOk == [type |-> "Ok"]
RespTaskList(list) == [type |-> "TaskList", list |-> list]
RespError(id) == [type |-> "Error", id |-> id]
NoResponse == [type |-> "none"]

\* IpcCommand, as decoded from one line
\* the id lists explored: the task, an absent id, both
IdLists == {<<1>>, <<2>>, <<1, 2>>}
SetOps == {"Stop", "Pause", "Resume"}
Commands ==
    [op : SetOps, ids : IdLists] \cup {[op |-> "List"]}
        \cup [op : {"Status"}, id : TaskIds]

\* mutant: the Resume arm writes Paused
op_status_resume_paused(op) ==
    CASE op = "Stop" -> Stopped
      [] op = "Pause" -> Paused
      [] op = "Resume" -> Paused

op_status(op) ==
    CASE op = "Stop" -> Stopped
      [] op = "Pause" -> Paused
      [] op = "Resume" -> Running

\* handle_command: the store after the command
command_store(cmd, t) ==
    IF cmd.op \in SetOps THEN set_status_each(t, cmd.ids, op_status(cmd.op)) ELSE t

\* tasks.iter(): a HashMap yields every entry once, in an order of its own
iter_orders(t) ==
    {o \in [1..Cardinality(DOMAIN t) -> DOMAIN t] :
        \A i, j \in DOMAIN o : i # j => o[i] # o[j]}

\* handle_command: the response; order is the order tasks.iter() went through
\* the store
command_response(cmd, t, order) ==
    CASE cmd.op \in SetOps -> RespOk
      [] cmd.op = "List" ->
            RespTaskList([i \in DOMAIN order |-> task_entry(t, order[i])])
      [] cmd.op = "Status" ->
            IF cmd.id \in DOMAIN t THEN RespTaskList(<<task_entry(t, cmd.id)>>)
            ELSE RespError(cmd.id)

InIds(id, ids) == \E i \in 1..Len(ids) : ids[i] = id

(***************************************************************************)
(* Wordlists and combinations.  A string is the sequence of its            *)
(* characters.                                                             *)
(***************************************************************************)
RECURSIVE split_acc(_, _, _, _)
split_acc(s, sep, cur, out) ==
    IF s = <<>> THEN Append(out, cur)
    ELSE IF Head(s) = sep THEN split_acc(Tail(s), sep, <<>>, Append(out, cur))
    ELSE split_acc(Tail(s), sep, Append(cur, Head(s)), out)

\* str::split(sep): the pieces between separators, empty ones included
split(s, sep) == split_acc(s, sep, <<>>, <<>>)

RECURSIVE trim_start(_)
trim_start(s) == IF s # <<>> /\ Head(s) = " " THEN trim_start(Tail(s)) ELSE s

RECURSIVE trim_end(_)
trim_end(s) ==
    IF s # <<>> /\ s[Len(s)] = " " THEN trim_end(SubSeq(s, 1, Len(s) - 1)) ELSE s

\* str::trim
trim(s) == trim_end(trim_start(s))

is_empty(s) == s = <<>>
not_empty(s) == ~is_empty(s)

\* split(',').map(trim).filter(!is_empty)
items_of(text) ==
    LET parts == split(text, ",")
    IN  SelectSeq([i \in DOMAIN parts |-> trim(parts[i])], not_empty)

\* the same over the lines of a file, flattened
RECURSIVE flat_items(_)
flat_items(lines) ==
    IF lines = <<>> THEN <<>> ELSE items_of(Head(lines)) \o flat_items(Tail(lines))

Plus == <<"+">>

\* the paths that exist, with their lines: one file "f" holding "c,a" and " "
FileLines == (<<"f">> :> << <<"c", ",", "a">>, <<" ">> >>)
path_exists(token) == token \in DOMAIN FileLines

read_list_from_token(token) ==
    IF token = Plus THEN <<Plus>>
    ELSE IF path_exists(token) THEN flat_items(FileLines[token])
    ELSE items_of(token)

\* Downzer::parse_wordlist
parse_wordlist(token) == read_list_from_token(token)

\* raw_lists[i].len() == 1 && raw_lists[i][0] == "+"
is_plus(list) == Len(list) = 1 /\ list[1] = Plus

MergeOk(lists) == [ok |-> TRUE, lists |-> lists]
MergeErr(msg) == [ok |-> FALSE, err |-> msg]

\* the inner while of process_wordlists, j counted from 1
RECURSIVE absorb(_, _, _)
absorb(raw, combined, j) ==
    IF j <= Len(raw) /\ is_plus(raw[j])
    THEN IF j + 1 > Len(raw) THEN MergeErr("'+' at end without following list")
         ELSE absorb(raw, combined \o raw[j + 1], j + 2)
    ELSE [ok |-> TRUE, combined |-> combined, j |-> j]

\* mutant: a chain keeps only its first list
chain_at_first_only(raw, i) ==
    LET a == absorb(raw, raw[i], i + 1)
    IN  IF a.ok THEN [a EXCEPT !.combined = raw[i]] ELSE a

\* the chain that starts at raw[i]
chain_at(raw, i) == absorb(raw, raw[i], i + 1)

\* the outer while of process_wordlists, i counted from 1
RECURSIVE merge_loop(_, _, _)
merge_loop(raw, i, acc) ==
    IF i > Len(raw) THEN MergeOk(acc)
    ELSE IF is_plus(raw[i]) THEN MergeErr("'+' without adjacent lists")
    ELSE LET a == chain_at(raw, i)
         IN  IF a.ok THEN merge_loop(raw, a.j, Append(acc, a.combined)) ELSE a

\* the lists read from the tokens
raw_lists(tokens) == [i \in DOMAIN tokens |-> read_list_from_token(tokens[i])]

process_wordlists(tokens) == merge_loop(raw_lists(tokens), 1, <<>>)

\* usize::to_string, for the numbers the ranges below hold
usize_to_string(n) ==
    CASE n = 0 -> <<"0">>
      [] n = 1 -> <<"1">>
      [] n = 2 -> <<"2">>
      [] n = 3 -> <<"3">>

RangeOk(items) == [ok |-> TRUE, items |-> items]
RangeErr(msg) == [ok |-> FALSE, err |-> msg]
NoRange == [given |-> FALSE]
\* a range argument: text that matches ^(\d+)-(\d+)$ or does not
RangeArg(matches, start, end) ==
    [given |-> TRUE, matches |-> matches, start |-> start, end |-> end]

\* Downzer::parse_range
parse_range(spec) ==
    IF spec.matches
    THEN IF spec.end < spec.start THEN RangeErr("Invalid range: end < start")
         ELSE RangeOk([k \in 1..(spec.end - spec.start + 1) |->
                          usize_to_string(spec.start + k - 1)])
    ELSE RangeErr("Invalid range format")

\* mutant: a shorter list is not cycled but stays on its last item
par_combo_clamped(lists, i) ==
    [j \in DOMAIN lists |->
        lists[j][IF i + 1 > Len(lists[j]) THEN Len(lists[j]) ELSE i + 1]]

\* generate_combinations, parallel: the tuple of round i, i counted from 0
par_combo(lists, i) == [j \in DOMAIN lists |-> lists[j][(i % Len(lists[j])) + 1]]

\* generate_combinations, product: the nested function cartesian_product
RECURSIVE cartesian_product(_, _, _)
RECURSIVE cartesian_items(_, _, _, _)
cartesian_product(lists, current, index) ==
    IF index > Len(lists) THEN <<current>>
    ELSE cartesian_items(lists, current, index, 1)

\* its for loop, from the k-th item of lists[index] on
cartesian_items(lists, current, index, k) ==
    IF k > Len(lists[index]) THEN <<>>
    ELSE cartesian_product(lists, Append(current, lists[index][k]), index + 1)
            \o cartesian_items(lists, current, index, k + 1)

\* mutant: the product is built with the leftmost list varying fastest
RECURSIVE product_left_fastest(_, _)
product_left_fastest(lists, n) ==
    IF n = 0 THEN << <<>> >>
    ELSE LET rest == product_left_fastest(lists, n - 1)
             last == lists[n]
         IN  [k \in 1..(Len(rest) * Len(last)) |->
                 Append(rest[((k - 1) % Len(rest)) + 1],
                        last[((k - 1) \div Len(rest)) + 1])]

product_from_left(lists) == product_left_fastest(lists, Len(lists))

\* the product arm of generate_combinations
product_of(lists) == cartesian_product(lists, <<>>, 1)

CombosOk(tuples) == [ok |-> TRUE, tuples |-> tuples]
\* a panic: index out of bounds, or remainder by zero
Panic == [ok |-> FALSE]

\* generate_combinations before its shuffle
generate_ordered(lists, par) ==
    IF par
    THEN IF lists = <<>> THEN Panic
         ELSE IF Len(lists[1]) > 0 /\ \E j \in DOMAIN lists : Len(lists[j]) = 0
              THEN Panic
              ELSE CombosOk([i \in 1..Len(lists[1]) |-> par_combo(lists, i - 1)])
    ELSE IF Len(lists) = 1 THEN CombosOk([i \in DOMAIN lists[1] |-> <<lists[1][i]>>])
    ELSE CombosOk(product_of(lists))

\* the orders a shuffle of n elements can produce
shuffles(n) == {p \in [1..n -> 1..n] : \A i, j \in 1..n : i # j => p[i] # p[j]}

\* mutant: the shuffle draws every element from the first position
shuffled_first_only(seq, p) == [i \in DOMAIN seq |-> seq[p[1]]]

\* the sequence in the order p
shuffled(seq, p) == [i \in DOMAIN seq |-> seq[p[i]]]

\* str::starts_with
starts_with(s, pat) == Len(s) >= Len(pat) /\ SubSeq(s, 1, Len(pat)) = pat

\* str::contains
contains(s, pat) == \E i \in 1..(Len(s) - Len(pat) + 1) : SubSeq(s, i, i + Len(pat) - 1) = pat

\* str::replace: every match of pat, found from left to right without
\* overlap, is replaced by val
RECURSIVE replace(_, _, _)
replace(s, pat, val) ==
    IF s = <<>> THEN <<>>
    ELSE IF starts_with(s, pat)
         THEN val \o replace(SubSeq(s, Len(pat) + 1, Len(s)), pat, val)
         ELSE <<Head(s)>> \o replace(Tail(s), pat, val)

Digits == <<"0", "1", "2", "3", "4", "5", "6", "7", "8", "9">>

\* the decimal text of n, as format!("{}", n) writes it
RECURSIVE decimal(_)
decimal(n) ==
    IF n < 10 THEN <<Digits[n + 1]>> ELSE decimal(n \div 10) \o <<Digits[(n % 10) + 1]>>

FUZZW == <<"F", "U", "Z", "Z", "W">>
FUZZR == <<"F", "U", "Z", "Z", "R">>

\* format!("FUZZW{}", i + 1) for the i-th value, i counted from 1 here
placeholder(i) == FUZZW \o decimal(i)

\* the loop over combo.iter().enumerate(), from the i-th value on
RECURSIVE replace_values(_, _, _)
replace_values(url, combo, i) ==
    IF i > Len(combo) THEN url
    ELSE replace_values(IF contains(url, placeholder(i))
                        THEN replace(url, placeholder(i), combo[i])
                        ELSE url,
                        combo, i + 1)

\* the target of one combination
resolve(tpl, combo) ==
    LET url == replace_values(tpl, combo, 1)
    IN  IF contains(url, FUZZR) /\ combo # <<>> THEN replace(url, FUZZR, combo[1]) ELSE url

NoExclude == [given |-> FALSE]
ExcludeArg(text) == [given |-> TRUE, text |-> text]

\* str::split(|c| c == ',' || c == ' ')
RECURSIVE split_any_acc(_, _, _, _)
split_any_acc(s, seps, cur, out) ==
    IF s = <<>> THEN Append(out, cur)
    ELSE IF Head(s) \in seps THEN split_any_acc(Tail(s), seps, <<>>, Append(out, cur))
    ELSE split_any_acc(Tail(s), seps, Append(cur, Head(s)), out)

\* the HashSet of the non-empty pieces of exclude.unwrap_or("")
exclude_set(ex) ==
    LET parts == split_any_acc(IF ex.given THEN ex.text ELSE <<>>, {",", " "}, <<>>, <<>>)
    IN  {parts[i] : i \in {k \in DOMAIN parts : not_empty(parts[k])}}

\* mutant: a target is excluded when it equals a token up to case
lower(c) == IF c = "A" THEN "a" ELSE c
excluded_ignoring_case(url, tokens) ==
    \E t \in tokens : [i \in DOMAIN url |-> lower(url[i])] = [i \in DOMAIN t |-> lower(t[i])]

\* exclude_set.contains(url.as_str())
excluded(url, tokens) == url \in tokens

\* the for loop over the combinations, from the k-th on
RECURSIVE resolve_all(_, _, _, _)
resolve_all(tpl, combos, tokens, k) ==
    IF k > Len(combos) THEN <<>>
    ELSE LET url == resolve(tpl, combos[k])
         IN  (IF excluded(url, tokens) THEN <<>> ELSE <<url>>)
                \o resolve_all(tpl, combos, tokens, k + 1)

process_url_template(tpl, combos, ex) == resolve_all(tpl, combos, exclude_set(ex), 1)

\* no target resolution is part of the run
\* the allocators of task ids, at rest
Allocators == 1..MaxAllocators
NoHolder == 0
AllocIdle ==
    /\ alloc_pc = [a \in Allocators |-> "start"]
    /\ alloc_id = [a \in Allocators |-> 0]
    /\ lock_holder = NoHolder
    /\ alloc_log = <<>>

TemplateIdle ==
    /\ template = <<>>
    /\ exclude = NoExclude
    /\ urls = <<>>

NoCombos == [ok |-> FALSE, pending |-> TRUE]
NoMerge == [ok |-> FALSE, pending |-> TRUE]

\* the expansion is over, or the process is a client and never expands
ExpandIdle ==
    /\ expc = "done"
    /\ range = NoRange
    /\ wordlist = <<>>
    /\ parallel = FALSE
    /\ random = FALSE
    /\ all_items = <<>>
    /\ combinations = NoCombos
    /\ processed = NoMerge
    /\ TemplateIdle
    /\ AllocIdle

(***************************************************************************)
(* The command-line client: main's subcommand arms and send_command.       *)
(***************************************************************************)
\* the commands main's subcommands send (there is no Status subcommand)
ClientCommands == [op : SetOps, ids : IdLists] \cup {[op |-> "List"]}

\* serde_json::to_string of an IpcResponse: a unit variant is a JSON string,
\* a variant with a payload is a one-key JSON object
encode_response(r) ==
    CASE r.type = "Ok" -> [json |-> "string", text |-> "Ok"]
      [] r.type = "TaskList" -> [json |-> "object", key |-> "TaskList", value |-> r.list]
      [] r.type = "Error" -> [json |-> "object", key |-> "Error", value |-> r.id]

\* the responses a server can write
SampleResponses ==
    {RespOk, RespTaskList(<<>>),
     RespTaskList(<< <<1, to_string(Running), url_template>> >>), RespError(2)}

\* what read_line can hand to the client: an encoded response, nothing at
\* all (the peer closed without writing), or a line that is no IpcResponse
ResponseLines ==
    {encode_response(r) : r \in SampleResponses}
        \cup {[json |-> "empty"], [json |-> "string", text |-> "Nope"],
              [json |-> "invalid"]}

\* the channel as one invocation meets it
Channels == [connect : BOOLEAN, write : BOOLEAN, read : BOOLEAN, line : ResponseLines]

SendOk(r) == [ok |-> TRUE, resp |-> r]
SendErr(e) == [ok |-> FALSE, err |-> e]
NoSendResult == [ok |-> FALSE, err |-> "none"]

\* serde_json::from_str::<IpcResponse>
decode_response(line) ==
    CASE line.json = "string" /\ line.text = "Ok" -> SendOk(RespOk)
      [] line.json = "object" /\ line.key = "TaskList" -> SendOk(RespTaskList(line.value))
      [] line.json = "object" /\ line.key = "Error" -> SendOk(RespError(line.value))
      [] OTHER -> SendErr("decode")

\* ipc.rs send_command: every failing step returns its error with `?`
send_command(cmd, chan) ==
    IF ~chan.connect THEN SendErr("connect")
    ELSE IF ~chan.write THEN SendErr("write")
    ELSE IF ~chan.read THEN SendErr("read")
    ELSE decode_response(chan.line)

NoInstance == "No running instance found"

\* the confirmation each subcommand prints for IpcResponse::Ok
ok_text(op) ==
    CASE op = "Stop" -> "Tasks stopped"
      [] op = "Pause" -> "Tasks paused"
      [] op = "Resume" -> "Tasks resumed"

\* main.rs 169-214: the match on send_command's result ("" is no output)
client_report(cmd, result) ==
    IF ~result.ok THEN NoInstance
    ELSE IF cmd.op \in SetOps
         THEN CASE result.resp.type = "Ok" -> ok_text(cmd.op)
                [] result.resp.type = "Error" -> "Task not found"
                [] OTHER -> ""
         ELSE CASE result.resp.type = "TaskList" ->
                      IF result.resp.list = <<>> THEN "No active tasks" ELSE "ID Status URL"
                [] OTHER -> ""

\* no client is part of the run
ClientIdle ==
    /\ cl_pc = "idle"
    /\ cl_cmd = [op |-> "List"]
    /\ cl_chan = [connect |-> FALSE, write |-> FALSE, read |-> FALSE,
                  line |-> [json |-> "empty"]]
    /\ cl_result = NoSendResult
    /\ cl_out = ""

(***************************************************************************)
(* Initial state: the process has parsed its arguments, resolved N >= 1    *)
(* targets, installed the Ctrl+C handler and built the Downzer.            *)
(***************************************************************************)
InitWith(flags, counts, limits) ==
    /\ ipc_flag \in flags
    /\ N \in counts
    /\ max_concurrent \in limits
    /\ mainpc = "start"
    /\ next_task_id = 1
    /\ task_id = 0
    /\ tasks = <<>>
    /\ rwlock = [writer |-> 0, readers |-> {}]
    /\ handlers = <<>>
    /\ stable = <<>>
    /\ shutdown = FALSE
    /\ server = "off"
    /\ conns = 0
    /\ last_resp = NoResponse
    /\ permits = 0
    /\ spawned = 0
    /\ upc = [u \in 1..N |-> "unspawned"]
    /\ res = [u \in 1..N |-> NoResult]
    /\ ret = [u \in 1..N |-> None]
    /\ seen = [u \in 1..N |-> NotRead]
    /\ written = 0
    /\ successful = 0
    /\ failed = 0
    /\ joined = 0
    /\ stats = StatsNew
    /\ stop_active = FALSE
    /\ resumed = FALSE
    /\ malformed = FALSE
    /\ ClientIdle
    /\ ExpandIdle

Init == InitWith(BOOLEAN, 1..MaxN, 0..MaxK)

Alive == mainpc # "exit"

(***************************************************************************)
(* main                                                                    *)
(***************************************************************************)
\* mutant: the server thread is started in every run
start_ipc_always(flag) == TRUE

\* main.rs 322: `if cli.add || cli.queue`
start_ipc(flag) == flag

\* main.rs 320-329: the server thread is started only with --add or --queue
MainStartIpc ==
    /\ mainpc = "start"
    /\ mainpc' = "alloc"
    /\ server' = IF start_ipc(ipc_flag) THEN "starting" ELSE server
    /\ UNCHANGED <<cfgvars, next_task_id, task_id, tasks, shutdown, conns, last_resp, unitvars, joinvars, histvars>>

\* main.rs 331-337: read and increment next_task_id under its write lock
\* (the counter starts at 1 and main allocates once: no u32 overflow here)
MainAllocId ==
    /\ mainpc = "alloc"
    /\ task_id' = next_task_id
    /\ next_task_id' = next_task_id + 1
    /\ mainpc' = "add"
    /\ UNCHANGED <<cfgvars, tasks, shutdown, srvvars, unitvars, joinvars, histvars>>

\* main.rs 339-349 and the entry of execute_download_task (371-375):
\* the task is inserted Running with total = urls.len(), the semaphore is
\* created with max_concurrent permits
MainAddTask ==
    /\ mainpc = "add"
    /\ tasks' = add_task(tasks, TaskInfo(task_id, N))
    /\ permits' = max_concurrent
    /\ stats' = StatsNew
    /\ mainpc' = "exec"
    /\ UNCHANGED <<cfgvars, next_task_id, task_id, shutdown, srvvars, spawned, upc, res,
                   ret, seen, written, joined, histvars>>

\* one iteration of the spawn loop: tokio::spawn of the unit for urls[spawned]
SpawnUnit ==
    /\ mainpc = "exec"
    /\ spawned < N
    /\ spawned' = spawned + 1
    /\ upc' = [upc EXCEPT ![spawned + 1] = "acquire"]
    /\ UNCHANGED <<cfgvars, mainvars, tasks, shutdown, srvvars, permits, res, ret, seen, written,
                   joinvars, histvars>>

\* mutant: the handle of an abandoned unit never becomes ready
handle_ready_done_only(u) == upc[u] = "done"

\* the handle the join loop awaits next has finished
handle_ready(u) == upc[u] \in {"done", "abandoned"}

\* one iteration of the join loop: the handle's value is moved out of it
JoinHandle ==
    /\ mainpc = "exec"
    /\ spawned = N
    /\ joined < N
    /\ handle_ready(joined + 1)
    /\ stats' = stats_add(stats, ret[joined + 1])
    /\ ret' = [ret EXCEPT ![joined + 1] = Taken]
    /\ joined' = joined + 1
    /\ UNCHANGED <<cfgvars, mainvars, tasks, shutdown, srvvars, permits, spawned, upc, res, seen,
                   written,
                   histvars>>

\* mutant: Completed is written once the units are spawned, not awaited
all_joined_spawned_only == spawned = N

\* the join loop has awaited every handle
all_joined == spawned = N /\ joined = N

\* mutant: a batch that abandoned a unit keeps the status it has
SetCompletedUnlessAbandoned ==
    /\ mainpc = "exec"
    /\ all_joined
    /\ tasks' = IF \E u \in Units : upc[u] = "abandoned" THEN tasks
                ELSE set_task_status(tasks, task_id, Completed)
    /\ mainpc' = "summary"
    /\ resumed' = FALSE
    /\ UNCHANGED <<cfgvars, next_task_id, task_id, shutdown, srvvars, unitvars, joinvars,
                   stop_active, malformed>>

\* downzer.rs 457-458: set_task_status(task_id, Completed); the store's lock
\* is released before the summary is printed
SetCompleted ==
    /\ mainpc = "exec"
    /\ all_joined
    /\ tasks' = set_task_status(tasks, task_id, Completed)
    /\ mainpc' = "summary"
    /\ resumed' = FALSE
    /\ UNCHANGED <<cfgvars, next_task_id, task_id, shutdown, srvvars, unitvars, joinvars,
                   stop_active, malformed>>

\* downzer.rs 460-469: print the summary, return Ok(stats)
ReturnStats ==
    /\ mainpc = "summary"
    /\ mainpc' = "returned"
    /\ UNCHANGED <<cfgvars, next_task_id, task_id, tasks, shutdown, srvvars, unitvars,
                   joinvars, histvars>>

\* main.rs 405-424: the executor reports and stores the shutdown flag
MainExecutorDone ==
    /\ mainpc = "returned"
    /\ shutdown' = TRUE
    /\ mainpc' = "cleanup"
    /\ UNCHANGED <<cfgvars, next_task_id, task_id, tasks, srvvars, unitvars, joinvars,
                   histvars>>

\* main.rs 433-449: main returns and the process ends; the server thread and
\* the handler threads end with it
MainExit ==
    /\ mainpc = "cleanup"
    /\ mainpc' = "exit"
    /\ server' = "off"
    /\ conns' = 0
    /\ UNCHANGED <<cfgvars, next_task_id, task_id, tasks, shutdown, last_resp, unitvars,
                   joinvars, histvars>>

\* main.rs 306-311: Ctrl+C stores the shutdown flag
CtrlC ==
    /\ Alive
    /\ ~shutdown
    /\ shutdown' = TRUE
    /\ UNCHANGED <<cfgvars, mainvars, tasks, srvvars, unitvars, joinvars, histvars>>

(***************************************************************************)
(* One unit: the async block execute_download_task spawns per target.      *)
(***************************************************************************)
\* downzer.rs 389: sem.acquire().await
Acquire(u) ==
    /\ Alive
    /\ upc[u] = "acquire"
    /\ sem_available(permits)
    /\ permits' = permits - 1
    /\ upc' = [upc EXCEPT ![u] = "check"]
    /\ UNCHANGED <<cfgvars, mainvars, tasks, shutdown, srvvars, spawned, res, ret, seen, written,
                   joinvars, histvars>>

\* downzer.rs 391-398: the cancellation check under the read lock; a unit
\* that sees Stopped returns None, which drops its permit
Check(u) ==
    /\ Alive
    /\ upc[u] = "check"
    /\ seen' = [seen EXCEPT ![u] = status_read(tasks, task_id)]
    /\ IF is_stopped(tasks, task_id)
       THEN /\ upc' = [upc EXCEPT ![u] = "abandoned"]
            /\ ret' = [ret EXCEPT ![u] = None]
            /\ permits' = sem_release(permits)
       ELSE /\ upc' = [upc EXCEPT ![u] = "net"]
            /\ UNCHANGED <<ret, permits>>
    /\ UNCHANGED <<cfgvars, mainvars, tasks, shutdown, srvvars, spawned, res, written,
                   joinvars, histvars>>

\* downzer.rs 414: download_file(..).await, the unit's network operation
NetOp(u) ==
    /\ Alive
    /\ upc[u] = "net"
    /\ \E o \in DownloadOutcomes :
          /\ res' = [res EXCEPT ![u] = o.result]
          /\ written' = written + o.bytes
    /\ upc' = [upc EXCEPT ![u] = "count"]
    /\ UNCHANGED <<cfgvars, mainvars, tasks, shutdown, srvvars, permits, spawned, ret, seen,
                   joinvars, histvars>>

\* downzer.rs 415-440: under the write lock completed += 1; the unit then
\* returns its tuple (the download's result is consumed by the match), which
\* drops its permit
Count(u) ==
    /\ Alive
    /\ upc[u] = "count"
    /\ tasks' = inc_completed(tasks, task_id)
    /\ ret' = [ret EXCEPT ![u] = unit_result(res[u])]
    /\ res' = [res EXCEPT ![u] = NoResult]
    /\ seen' = [seen EXCEPT ![u] = NotRead]
    /\ upc' = [upc EXCEPT ![u] = "done"]
    /\ permits' = sem_release(permits)
    /\ UNCHANGED <<cfgvars, mainvars, shutdown, srvvars, spawned, written, joinvars,
                   histvars>>

(***************************************************************************)
(* The control server: run_ipc_server and its handler threads.             *)
(***************************************************************************)
\* ipc.rs 81-88: the listener is created, or creation fails and
\* run_ipc_server returns the error, which main ignores
ServerBind ==
    /\ Alive
    /\ server = "starting"
    /\ server' \in {"looptop", "failed"}
    /\ UNCHANGED <<cfgvars, mainvars, tasks, shutdown, conns, last_resp, unitvars,
                   joinvars, histvars>>

\* ipc.rs 91-94: the shutdown check at the top of the accept loop
ServerLoop ==
    /\ Alive
    /\ server = "looptop"
    /\ server' = IF shutdown THEN "ended" ELSE "accepting"
    /\ UNCHANGED <<cfgvars, mainvars, tasks, shutdown, conns, last_resp, unitvars,
                   joinvars, histvars>>

\* ipc.rs 96-106: a client connected; a handler thread is spawned for it
ServerAccept ==
    /\ Alive
    /\ server = "accepting"
    /\ conns < MaxConns
    /\ conns' = conns + 1
    /\ server' = "looptop"
    /\ UNCHANGED <<cfgvars, mainvars, tasks, shutdown, last_resp, unitvars, joinvars,
                   histvars>>

\* ipc.rs 107-110: accept failed; sleep and try again
ServerAcceptErr ==
    /\ Alive
    /\ server = "accepting"
    /\ server' = "looptop"
    /\ UNCHANGED <<cfgvars, mainvars, tasks, shutdown, conns, last_resp, unitvars,
                   joinvars, histvars>>

\* the batch of the task is running: execute_download_task has not returned
BatchRunning == mainpc \in {"exec", "summary"}

\* cmd is a Stop, Pause or Resume that names id, and id is in the store
AppliesTo(cmd, id) == cmd.op \in SetOps /\ InIds(id, cmd.ids) /\ id \in DOMAIN tasks

\* handle_client with a well-formed line: decode, handle_command, respond
HandleCommand(cmd) ==
    /\ Alive
    /\ conns > 0
    /\ conns' = conns - 1
    /\ tasks' = command_store(cmd, tasks)
    /\ \E order \in iter_orders(tasks) :
          last_resp' = command_response(cmd, tasks, order)
    /\ stop_active' =
          IF AppliesTo(cmd, task_id)
          THEN IF cmd.op = "Stop" THEN (stop_active \/ BatchRunning) ELSE FALSE
          ELSE stop_active
    /\ resumed' =
          IF AppliesTo(cmd, task_id)
          THEN cmd.op = "Resume" /\ tasks[task_id].status = Paused
          ELSE resumed
    /\ UNCHANGED <<cfgvars, mainvars, shutdown, server, unitvars, joinvars, malformed>>

\* mutant: a line that does not decode ends the accept loop
HandleMalformedFatal ==
    /\ Alive
    /\ conns > 0
    /\ conns' = conns - 1
    /\ last_resp' = NoResponse
    /\ malformed' = TRUE
    /\ server' = "ended"
    /\ UNCHANGED <<cfgvars, mainvars, tasks, shutdown, unitvars, joinvars,
                   stop_active, resumed>>

\* handle_client with a line that does not decode: `?` returns the error
\* before handle_command and before any response is written
HandleMalformed ==
    /\ Alive
    /\ conns > 0
    /\ conns' = conns - 1
    /\ last_resp' = NoResponse
    /\ malformed' = TRUE
    /\ UNCHANGED <<cfgvars, mainvars, tasks, shutdown, server, unitvars, joinvars,
                   stop_active, resumed>>

\* the steps of main and of execute_download_task's own loops
MainSteps ==
    \/ MainStartIpc
    \/ MainAllocId
    \/ MainAddTask
    \/ SpawnUnit
    \/ JoinHandle
    \/ SetCompleted
    \/ ReturnStats
    \/ MainExecutorDone
    \/ MainExit

\* the steps of the spawned units
UnitSteps ==
    \/ \E u \in Units : Acquire(u)
    \/ \E u \in Units : Check(u)
    \/ \E u \in Units : NetOp(u)
    \/ \E u \in Units : Count(u)

\* the steps of the accept loop
ServerSteps ==
    \/ ServerBind
    \/ ServerLoop
    \/ ServerAccept
    \/ ServerAcceptErr

Next ==
    \/ MainSteps
    \/ UnitSteps
    \/ CtrlC
    \/ ServerSteps
    \/ \E cmd \in Commands : HandleCommand(cmd)
    \/ HandleMalformed

Spec == Init /\ [][Next]_vars

(***************************************************************************)
(* The runs in which no Stop is ever applied to the task, under the        *)
(* scheduling the runtime provides: main and every spawned unit keep being *)
(* polled (tokio's scheduler is fair, its semaphore and RwLock hand out     *)
(* permits and the lock in FIFO order) and download_file returns.          *)
(* Clients and Ctrl+C are under no obligation.                             *)
(***************************************************************************)
NoStopNext ==
    \/ MainSteps
    \/ UnitSteps
    \/ CtrlC
    \/ ServerSteps
    \/ \E cmd \in Commands :
          /\ ~(cmd.op = "Stop" /\ AppliesTo(cmd, task_id))
          /\ HandleCommand(cmd)
    \/ HandleMalformed

NoStopSpec ==
    Init /\ [][NoStopNext]_vars /\ WF_vars(MainSteps) /\ WF_vars(UnitSteps)

(***************************************************************************)
(* One invocation of the command-line client, on its own: the subcommand   *)
(* and the behaviour of the channel are drawn by ClientInit; the process   *)
(* that serves the channel, if any, is not part of this specification.     *)
(***************************************************************************)
\* the variables of the downloading process, at rest
Unlocked == [writer |-> 0, readers |-> {}]

LockIdle ==
    /\ rwlock = Unlocked
    /\ handlers = <<>>
    /\ stable = <<>>

IdleWith(store) ==
    /\ ipc_flag = FALSE
    /\ N = 1
    /\ max_concurrent = 0
    /\ mainpc = "exit"
    /\ next_task_id = 1
    /\ task_id = 0
    /\ tasks = store
    /\ shutdown = FALSE
    /\ server = "off"
    /\ conns = 0
    /\ last_resp = NoResponse
    /\ permits = 0
    /\ spawned = 0
    /\ upc = [u \in 1..N |-> "unspawned"]
    /\ res = [u \in 1..N |-> NoResult]
    /\ ret = [u \in 1..N |-> None]
    /\ seen = [u \in 1..N |-> NotRead]
    /\ written = 0
    /\ successful = 0
    /\ failed = 0
    /\ joined = 0
    /\ stats = StatsNew
    /\ stop_active = FALSE
    /\ resumed = FALSE
    /\ malformed = FALSE

RunIdle == IdleWith(<<>>) /\ LockIdle

runvars == <<ipc_flag, N, max_concurrent, mainvars, tasks, shutdown, srvvars, unitvars,
             joinvars, histvars, webvars, lockvars>>

ClientInit ==
    /\ RunIdle
    /\ ExpandIdle
    /\ cl_pc = "ready"
    /\ cl_cmd \in ClientCommands
    /\ cl_chan \in Channels
    /\ cl_result = NoSendResult
    /\ cl_out = ""

\* main.rs 172, 181, 198, 207: ipc::send_command(&cmd)
ClientSend ==
    /\ cl_pc = "ready"
    /\ cl_result' = send_command(cl_cmd, cl_chan)
    /\ cl_pc' = "sent"
    /\ UNCHANGED <<runvars, expandvars, tplvars, allocvars, cl_cmd, cl_chan, cl_out>>

\* main.rs 173-178 and the like: print for the result, return
ClientReport ==
    /\ cl_pc = "sent"
    /\ cl_out' = client_report(cl_cmd, cl_result)
    /\ cl_pc' = "done"
    /\ UNCHANGED <<runvars, expandvars, tplvars, allocvars, cl_cmd, cl_chan, cl_result>>

ClientNext == ClientSend \/ ClientReport

ClientSpec == ClientInit /\ [][ClientNext]_vars

(***************************************************************************)
(* main's expansion of its range and wordlist arguments into the           *)
(* combinations, on its own: the arguments are drawn by ExpandInit.        *)
(***************************************************************************)
\* the wordlist arguments explored: "+", "a", "c", "a,b", " +", "," and the
\* path of the file
WordlistArgs ==
    {Plus, <<"a">>, <<"c">>, <<"a", ",", "b">>, <<" ", "+">>, <<",">>, <<"f">>}

\* the range arguments explored: none, 0-2, 1-0 and one that is no range
RangeArgs == {NoRange, RangeArg(TRUE, 0, 2), RangeArg(TRUE, 1, 0), RangeArg(FALSE, 0, 0)}

\* the sequences of at most n wordlist arguments
ArgSeqs(n) == UNION {[1..k -> WordlistArgs] : k \in 0..n}

ExpandInit ==
    /\ RunIdle
    /\ ClientIdle
    /\ expc = "args"
    /\ range \in RangeArgs
    /\ wordlist \in ArgSeqs(MaxWords)
    /\ parallel \in BOOLEAN
    /\ random \in BOOLEAN
    /\ all_items = <<>>
    /\ combinations = NoCombos
    /\ processed = NoMerge
    /\ TemplateIdle
    /\ AllocIdle

\* main.rs 242-250: the range, if given, is the first list; an error ends main
ParseRange ==
    /\ expc = "args"
    /\ IF range.given
       THEN LET r == parse_range(range)
            IN  IF r.ok
                THEN all_items' = <<r.items>> /\ expc' = "wordlists"
                ELSE all_items' = all_items /\ expc' = "failed"
       ELSE all_items' = all_items /\ expc' = "wordlists"
    /\ UNCHANGED <<runvars, clientvars, tplvars, allocvars, range, wordlist, parallel, random, combinations,
                   processed>>

\* main.rs 252-268: every wordlist argument is parsed by itself and pushed;
\* main bails out if there is no list at all
ParseWordlists ==
    /\ expc = "wordlists"
    /\ all_items' = all_items \o [i \in DOMAIN wordlist |-> parse_wordlist(wordlist[i])]
    /\ expc' = IF all_items' = <<>> THEN "failed" ELSE "lists"
    /\ UNCHANGED <<runvars, clientvars, tplvars, allocvars, range, wordlist, parallel, random, combinations,
                   processed>>

\* main.rs 275: generate_combinations(&all_items, cli.parallel, cli.random)
GenerateCombinations ==
    /\ expc = "lists"
    /\ LET r == generate_ordered(all_items, parallel)
       IN  IF ~r.ok
           THEN combinations' = Panic /\ expc' = "panicked"
           ELSE /\ expc' = "combos"
                /\ IF random
                   THEN /\ Len(r.tuples) <= MaxShuffle
                        /\ \E p \in shuffles(Len(r.tuples)) :
                              combinations' = CombosOk(shuffled(r.tuples, p))
                   ELSE combinations' = r
    /\ UNCHANGED <<runvars, clientvars, tplvars, allocvars, range, wordlist, parallel, random, all_items,
                   processed>>

ExpandNext == ParseRange \/ ParseWordlists \/ GenerateCombinations

ExpandSpec == ExpandInit /\ [][ExpandNext]_vars

(***************************************************************************)
(* process_url_template on its own: the template, the combinations and the *)
(* exclusion argument are drawn by TemplateInit.                           *)
(***************************************************************************)
\* the templates explored: FUZZW1, FUZZW2/FUZZW1, FUZZW10, FUZZR, "FUZZW1 "
Templates ==
    {FUZZW \o <<"1">>, FUZZW \o <<"2", "/">> \o FUZZW \o <<"1">>, FUZZW \o <<"1", "0">>,
     FUZZR, FUZZW \o <<"1", " ">>}

\* the tuples explored: up to MaxArity values a or A, one tuple whose first
\* value reads FUZZW2, and two long tuples of a's with one A
PlainValues == {<<"a">>, <<"A">>}
TemplateTuples ==
    UNION {[1..k -> PlainValues] : k \in 0..MaxArity}
        \cup {<<FUZZW \o <<"2">>, <<"a">>>>}
        \cup {[i \in 1..WideArity |-> IF i = k THEN <<"A">> ELSE <<"a">>] :
                 k \in {1, WideArity}}

\* the exclusion arguments explored: none, "a", " a,,A/a "
Excludes ==
    {NoExclude, ExcludeArg(<<"a">>),
     ExcludeArg(<<" ", "a", ",", ",", "A", "/", "a", " ">>)}

TemplateInit ==
    /\ RunIdle
    /\ ClientIdle
    /\ expc = "template"
    /\ range = NoRange
    /\ wordlist = <<>>
    /\ parallel = FALSE
    /\ random = FALSE
    /\ all_items = <<>>
    /\ \E n \in 0..MaxCombos : \E c \in [1..n -> TemplateTuples] :
          combinations = CombosOk(c)
    /\ processed = NoMerge
    /\ template \in Templates
    /\ exclude \in Excludes
    /\ urls = <<>>
    /\ AllocIdle

\* downzer.rs 324-358
ProcessUrlTemplate ==
    /\ expc = "template"
    /\ urls' = process_url_template(template, combinations.tuples, exclude)
    /\ expc' = "urls"
    /\ UNCHANGED <<runvars, clientvars, allocvars, range, wordlist, parallel, random,
                   all_items, combinations, processed, template, exclude>>

TemplateNext == ProcessUrlTemplate

TemplateSpec == TemplateInit /\ [][TemplateNext]_vars

(***************************************************************************)
(* The downloading run with the server thread scheduled as well: the       *)
(* thread keeps running its own steps, the creation of the listener and    *)
(* the test of the flag at the top of the loop.  Whether a client connects *)
(* or an accept fails is up to the environment.                            *)
(***************************************************************************)
ServedSpec ==
    /\ Init
    /\ [][Next]_vars
    /\ WF_vars(MainSteps)
    /\ WF_vars(UnitSteps)
    /\ WF_vars(ServerBind)
    /\ WF_vars(ServerLoop)

(***************************************************************************)
(* The downloading run under the least the runtime provides: as long as    *)
(* main or a spawned unit can take a step, one of them does.  Clients,     *)
(* Ctrl+C and the server thread are under no obligation.                   *)
(***************************************************************************)
PolledSpec == Init /\ [][Next]_vars /\ WF_vars(MainSteps \/ UnitSteps)

(***************************************************************************)
(* Web-request mode: modes/webrequest.rs execute, run by the same main.    *)
(***************************************************************************)
\* what one request attempt of a unit can come to: the method is none of the
\* seven known ones, the timeout elapses, send() fails, or a response arrives
WebAttempts ==
    [kind : {"unknown_method", "timeout", "transport"}]
        \cup [kind : {"response"}, status : {200, 404, 500}]

\* webrequest.rs 59-107: the value the unit's task returns
web_result(a) ==
    IF a.kind = "response" THEN Some(<<is_success(a.status), a.status>>)
    ELSE Some(<<FALSE, 0>>)

\* mutant: only the successful requests are counted
web_count_successes(c, r) ==
    IF r.some /\ r.t[1] THEN [c EXCEPT !.successful = @ + 1] ELSE c

\* webrequest.rs 120-128: what awaiting one handle adds to the counters
web_count(c, r) ==
    IF r.some /\ r.t[1] THEN [c EXCEPT !.successful = @ + 1]
    ELSE [c EXCEPT !.failed = @ + 1]

WebInit == InitWith(BOOLEAN, 1..MaxN, 0..MaxK)

\* webrequest.rs 45-110: one iteration of the spawn loop that finds the
\* shutdown flag clear
WebSpawn ==
    /\ mainpc = "exec"
    /\ spawned < N
    /\ ~shutdown
    /\ spawned' = spawned + 1
    /\ upc' = [upc EXCEPT ![spawned + 1] = "acquire"]
    /\ UNCHANGED <<cfgvars, mainvars, tasks, shutdown, srvvars, permits, res, ret, seen,
                   written, joinvars, histvars>>

\* webrequest.rs 45-49: the spawn loop ends, by exhaustion or by the break
WebSpawnEnd ==
    /\ mainpc = "exec"
    /\ spawned = N \/ shutdown
    /\ mainpc' = "web_join"
    /\ UNCHANGED <<cfgvars, next_task_id, task_id, tasks, shutdown, srvvars, unitvars,
                   joinvars, histvars>>

\* webrequest.rs 60: sem.acquire().await
WebAcquire(u) ==
    /\ Alive
    /\ upc[u] = "acquire"
    /\ sem_available(permits)
    /\ permits' = permits - 1
    /\ upc' = [upc EXCEPT ![u] = "net"]
    /\ UNCHANGED <<cfgvars, mainvars, tasks, shutdown, srvvars, spawned, res, ret, seen,
                   written, joinvars, histvars>>

\* webrequest.rs 63-107: the request under its timeout; the task returns,
\* which drops its permit
WebRequest(u) ==
    /\ Alive
    /\ upc[u] = "net"
    /\ \E a \in WebAttempts : ret' = [ret EXCEPT ![u] = web_result(a)]
    /\ upc' = [upc EXCEPT ![u] = "done"]
    /\ permits' = sem_release(permits)
    /\ UNCHANGED <<cfgvars, mainvars, tasks, shutdown, srvvars, spawned, res, seen,
                   written, joinvars, histvars>>

\* webrequest.rs 115-118: the join loop finds the shutdown flag clear and
\* goes on to await the next handle
WebJoinCheck ==
    /\ mainpc = "web_join"
    /\ joined < spawned
    /\ ~shutdown
    /\ mainpc' = "web_await"
    /\ UNCHANGED <<cfgvars, next_task_id, task_id, tasks, shutdown, srvvars, unitvars,
                   joinvars, histvars>>

\* webrequest.rs 120-128: handle.await returns and the unit is counted
WebAwait ==
    /\ mainpc = "web_await"
    /\ handle_ready(joined + 1)
    /\ LET c == web_count([successful |-> successful, failed |-> failed], ret[joined + 1])
       IN  successful' = c.successful /\ failed' = c.failed
    /\ ret' = [ret EXCEPT ![joined + 1] = Taken]
    /\ joined' = joined + 1
    /\ mainpc' = "web_join"
    /\ UNCHANGED <<ipc_flag, N, max_concurrent, clientvars, expandvars, tplvars, allocvars,
                   lockvars, next_task_id, task_id, tasks, shutdown, srvvars, permits,
                   spawned, upc,
                   res, seen, written, stats, histvars>>

\* mutant: the mode marks the task Completed when it returns
WebReturnCompleted ==
    /\ mainpc = "web_join"
    /\ joined = spawned \/ shutdown
    /\ mainpc' = "returned"
    /\ tasks' = set_task_status(tasks, task_id, Completed)
    /\ UNCHANGED <<cfgvars, next_task_id, task_id, shutdown, srvvars, unitvars,
                   joinvars, histvars>>

\* webrequest.rs 115-118, 131-152: the join loop ends, by exhaustion or by
\* the break, and the mode returns its ModeResult
WebReturn ==
    /\ mainpc = "web_join"
    /\ joined = spawned \/ shutdown
    /\ mainpc' = "returned"
    /\ UNCHANGED <<cfgvars, next_task_id, task_id, tasks, shutdown, srvvars, unitvars,
                   joinvars, histvars>>

WebNext ==
    \/ MainStartIpc
    \/ MainAllocId
    \/ MainAddTask
    \/ WebSpawn
    \/ WebSpawnEnd
    \/ WebJoinCheck
    \/ WebAwait
    \/ WebReturn
    \/ MainExecutorDone
    \/ MainExit
    \/ \E u \in Units : WebAcquire(u)
    \/ \E u \in Units : WebRequest(u)
    \/ CtrlC
    \/ ServerSteps
    \/ \E cmd \in Commands : HandleCommand(cmd)

WebSpec == WebInit /\ [][WebNext]_vars

(***************************************************************************)
(* The batch of a process started without --add or --queue: there is no    *)
(* control server, hence no command, and Ctrl+C is left out.  A woken unit *)
(* is polled: the semaphore hands a returned permit to a waiting acquire.  *)
(***************************************************************************)
GateInit == InitWith({FALSE}, 1..MaxUnits, 1..MaxK)

GateNext ==
    \/ MainSteps
    \/ UnitSteps

GateSpec ==
    /\ GateInit
    /\ [][GateNext]_vars
    /\ WF_vars(MainSteps)
    /\ \A u \in 1..MaxUnits : WF_vars(u \in Units /\ Acquire(u))
    /\ \A u \in 1..MaxUnits :
          WF_vars(u \in Units /\ (Check(u) \/ NetOp(u) \/ Count(u)))

(***************************************************************************)
(* The allocation of task ids (main.rs 331-337) by concurrent tasks, with  *)
(* the counter narrowed to IdBits bits so that its end is reached.         *)
(***************************************************************************)
\* the number of values of the counter, and its largest value (u32::MAX)
IdModulus == 2 ^ IdBits
IdMax == IdModulus - 1

\* mutant: the write lock is handed to whoever asks
write_lock_free_always(holder) == TRUE

\* RwLock::write: granted while nobody holds the lock
write_lock_free(holder) == holder = NoHolder

\* the outcomes of an addition on the counter
Overflow == [panic |-> TRUE]
Wrote(n) == [panic |-> FALSE, value |-> n]

\* `*next_id += 1`: the values the counter can have afterwards; at the largest
\* value the addition panics (overflow checks on, no value) or wraps to 0
increment(n) == IF n < IdMax THEN {Wrote(n + 1)} ELSE {Overflow, Wrote(0)}

everything_but_next_task_id ==
    <<ipc_flag, N, max_concurrent, mainpc, task_id, tasks, shutdown, srvvars, unitvars,
      joinvars, histvars, clientvars, expandvars, tplvars, webvars, lockvars>>

AllocInit ==
    /\ RunIdle
    /\ ClientIdle
    /\ ExpandIdle

\* main.rs 332: let mut next_id = downzer.next_task_id.write().await
AllocLock(a) ==
    /\ alloc_pc[a] = "start"
    /\ Len(alloc_log) <= IdMax
    /\ write_lock_free(lock_holder)
    /\ lock_holder' = a
    /\ alloc_pc' = [alloc_pc EXCEPT ![a] = "locked"]
    /\ UNCHANGED <<everything_but_next_task_id, next_task_id, alloc_id, alloc_log>>

\* main.rs 333: let id = *next_id
AllocRead(a) ==
    /\ alloc_pc[a] = "locked"
    /\ alloc_id' = [alloc_id EXCEPT ![a] = next_task_id]
    /\ alloc_pc' = [alloc_pc EXCEPT ![a] = "read"]
    /\ UNCHANGED <<everything_but_next_task_id, next_task_id, lock_holder, alloc_log>>

\* main.rs 334: *next_id += 1; a panic unwinds the block and drops the guard
AllocIncrement(a) ==
    /\ alloc_pc[a] = "read"
    /\ \E n \in increment(next_task_id) :
          IF n.panic
          THEN /\ alloc_pc' = [alloc_pc EXCEPT ![a] = "panicked"]
               /\ lock_holder' = IF lock_holder = a THEN NoHolder ELSE lock_holder
               /\ UNCHANGED next_task_id
          ELSE /\ alloc_pc' = [alloc_pc EXCEPT ![a] = "incremented"]
               /\ next_task_id' = n.value
               /\ UNCHANGED lock_holder
    /\ UNCHANGED <<everything_but_next_task_id, alloc_id, alloc_log>>

\* main.rs 335-336: the block yields id and the guard is dropped
AllocHandOut(a) ==
    /\ alloc_pc[a] = "incremented"
    /\ alloc_log' = Append(alloc_log, alloc_id[a])
    /\ lock_holder' = IF lock_holder = a THEN NoHolder ELSE lock_holder
    /\ alloc_pc' = [alloc_pc EXCEPT ![a] = "start"]
    /\ UNCHANGED <<everything_but_next_task_id, next_task_id, alloc_id>>

AllocNext ==
    \E a \in Allocators :
        \/ AllocLock(a)
        \/ AllocRead(a)
        \/ AllocIncrement(a)
        \/ AllocHandOut(a)

AllocSpec == AllocInit /\ [][AllocNext]_vars

(***************************************************************************)
(* process_wordlists on its own: the tokens are drawn by MergeInit.        *)
(***************************************************************************)
MergeInit ==
    /\ RunIdle
    /\ ClientIdle
    /\ expc = "tokens"
    /\ range = NoRange
    /\ wordlist \in ArgSeqs(MaxArgs)
    /\ parallel = FALSE
    /\ random = FALSE
    /\ all_items = <<>>
    /\ combinations = NoCombos
    /\ processed = NoMerge
    /\ TemplateIdle
    /\ AllocIdle

\* downzer.rs 157-188
ProcessWordlists ==
    /\ expc = "tokens"
    /\ processed' = process_wordlists(wordlist)
    /\ expc' = "merged"
    /\ UNCHANGED <<runvars, clientvars, tplvars, allocvars, range, wordlist, parallel, random, all_items,
                   combinations>>

MergeNext == ProcessWordlists

MergeSpec == MergeInit /\ [][MergeNext]_vars

(***************************************************************************)
(* Definitions the properties share.                                       *)
(***************************************************************************)
\* the units that hold an admission permit: acquired and not yet returned
Holders == {u \in Units : upc[u] \in {"check", "net", "count"}}

\* the units abandoned by their cancellation check
Abandoned == {u \in Units : upc[u] = "abandoned"}

\* the units that ran their network operation and counted themselves
Finished == {u \in Units : upc[u] = "done"}

\* execute_download_task has returned
Returned == mainpc \in {"returned", "cleanup", "exit"}

TaskPresent == task_id \in DOMAIN tasks

(***************************************************************************)
(* C1: with max_concurrency = k >= 1 and N > k targets, at most k units    *)
(* hold an admission permit in every reachable state, whatever the         *)
(* interleaving of units and control commands.                             *)
(***************************************************************************)
C1_BoundedConcurrency ==
    (max_concurrent >= 1 /\ N > max_concurrent)
        => Cardinality(Holders) <= max_concurrent

\* k units hold permits, another unit waits for one, and a control command
\* has been answered meanwhile
C1_Witness ==
    /\ max_concurrent >= 1
    /\ N > max_concurrent
    /\ Cardinality(Holders) = max_concurrent
    /\ \E u \in Units : upc[u] = "acquire"
    /\ \E u \in Units : upc[u] = "net"
    /\ last_resp = RespOk

(***************************************************************************)
(* C2: when execute_download_task has returned and no unit was abandoned,  *)
(* downloaded + ignored + errors + not_found equals the number of targets. *)
(* The code adds a not-found unit to ignored as well as to not_found, so   *)
(* this is violated by any batch with a not-found unit.                    *)
(***************************************************************************)
C2_StatsSumIsN ==
    (Returned /\ Abandoned = {})
        => stats.downloaded + stats.ignored + stats.errors + stats.not_found = N

(***************************************************************************)
(* C8: completed <= total for every task in every reachable state, under   *)
(* every interleaving of unit completions with Stop, Pause and Resume.     *)
(***************************************************************************)
C8_CompletedLeTotal ==
    \A id \in DOMAIN tasks : tasks[id].completed <= tasks[id].total

\* mid-batch, after a Stop abandoned a unit and a Resume set the task
\* Running again, the last unit has counted itself: completed = total - 1
C8_Witness ==
    /\ TaskPresent
    /\ mainpc = "exec"
    /\ Abandoned # {}
    /\ Finished # {}
    /\ tasks[task_id].status = Running
    /\ tasks[task_id].completed = Cardinality(Finished)
    /\ Cardinality(Abandoned) + Cardinality(Finished) = tasks[task_id].total

(***************************************************************************)
(* C3: after a Stop was applied to the task while its batch was running,   *)
(* every later List or Status query reports the task as Stopped for as     *)
(* long as no Pause or Resume naming it is applied, also after the batch   *)
(* has finished.  The engine overwrites Stopped with Completed when the    *)
(* batch returns, so a query answered after that reports Completed.        *)
(***************************************************************************)
\* cmd is a query about the task
QueriesTask(cmd) == cmd.op = "List" \/ (cmd.op = "Status" /\ cmd.id = task_id)

C3_StopStaysReported ==
    [][\A cmd \in Commands :
          (stop_active /\ QueriesTask(cmd) /\ HandleCommand(cmd))
              => \E i \in DOMAIN last_resp'.list :
                    last_resp'.list[i] = <<task_id, "Stopped", url_template>>]_vars

(***************************************************************************)
(* C4 as claimed: the only status changes that ever occur are Running to   *)
(* Paused, Paused to Running and Running to a terminal status; a task that *)
(* is Completed, Failed or Stopped never changes status again.             *)
(***************************************************************************)
Terminal == {Completed, Failed, Stopped}

ClaimedTransitions ==
    {<<Running, Paused>>, <<Paused, Running>>} \cup {<<Running, t>> : t \in Terminal}

C4_TerminalIsFinal ==
    [][\A id \in DOMAIN tasks :
          tasks'[id].status # tasks[id].status
              => <<tasks[id].status, tasks'[id].status>> \in ClaimedTransitions]_vars

(***************************************************************************)
(* C4 as amended: a task's status changes only (a) by a Stop, Pause or     *)
(* Resume command naming it, which sets Stopped, Paused or Running         *)
(* whatever the current status is, terminal ones included, or (b) by the   *)
(* engine's one write of Completed when the batch returns, whatever the    *)
(* status then is; so a Completed task changes status only by a command,   *)
(* and Queued and Failed never occur.                                      *)
(***************************************************************************)
C4_StatusWriters ==
    [][\A id \in DOMAIN tasks :
          tasks'[id].status # tasks[id].status
              => \/ /\ SetCompleted
                    /\ id = task_id
                    /\ tasks'[id].status = Completed
                 \/ \E cmd \in Commands :
                       /\ HandleCommand(cmd)
                       /\ cmd.op \in SetOps
                       /\ InIds(id, cmd.ids)
                       /\ tasks'[id].status =
                             (CASE cmd.op = "Stop" -> Stopped
                                [] cmd.op = "Pause" -> Paused
                                [] cmd.op = "Resume" -> Running)]_vars

\* the batch has returned, so the task was Completed, and a Resume has
\* since set it Running
C4_Witness ==
    /\ TaskPresent
    /\ Returned
    /\ tasks[task_id].status = Running

(***************************************************************************)
(* C5 as claimed, taken at the moments the task's status is terminal: no   *)
(* unit of the task performs its network operation or increments           *)
(* completed.  A unit that passed its cancellation check before a Stop     *)
(* does both while the task is Stopped.                                    *)
(***************************************************************************)
C5_NoUnitAfterTerminal ==
    [][(TaskPresent /\ tasks[task_id].status \in Terminal)
          => ~(\E u \in Units : NetOp(u) \/ Count(u))]_vars

(***************************************************************************)
(* C5 as amended: once the task has reached Completed, that is once the    *)
(* batch has returned, every unit has finished or been abandoned, so no    *)
(* unit performs its network operation or increments completed at any      *)
(* later point, whatever control commands arrive afterwards.  (For Stopped *)
(* this does not hold: units past their cancellation check still run.)     *)
(***************************************************************************)
C5_NoUnitAfterCompleted ==
    Returned => \A u \in Units : upc[u] \in {"done", "abandoned"}

\* after the batch returned, a command changed the Completed status
C5_Witness ==
    /\ TaskPresent
    /\ Returned
    /\ tasks[task_id].status \in {Paused, Stopped}
    /\ Finished # {}

(***************************************************************************)
(* C6: a unit whose cancellation check observes Stopped is abandoned: it   *)
(* performs no network operation, adds nothing to any Stats counter and    *)
(* does not increment completed; hence a batch in which a unit was         *)
(* abandoned returns with completed < total.                               *)
(***************************************************************************)
\* completed counts exactly the units that ran, Stats holds one outcome per
\* joined unit that ran, and an abandoned unit leaves completed short
C6_Counts ==
    /\ TaskPresent => tasks[task_id].completed = Cardinality(Finished)
    /\ stats.downloaded + stats.ignored + stats.errors
          = Cardinality({u \in Finished : u <= joined})
    /\ (Returned /\ Abandoned # {}) => tasks[task_id].completed < tasks[task_id].total

C6_StoppedUnitAbandoned ==
    /\ []C6_Counts
    /\ [][\A u \in Units :
             (Check(u) /\ TaskPresent /\ tasks[task_id].status = Stopped)
                 => /\ upc'[u] = "abandoned"
                    /\ ret'[u] = None
                    /\ UNCHANGED <<tasks, stats, res>>]_vars
    /\ [][\A u \in Units :
             upc[u] = "abandoned"
                 => /\ upc'[u] = "abandoned"
                    /\ res'[u] = NoResult
                    /\ ret'[u] \in {ret[u], Taken}]_vars

\* the batch has returned with one unit abandoned and another one counted
C6_Witness ==
    /\ Returned
    /\ Abandoned # {}
    /\ Finished # {}
    /\ tasks[task_id].completed < tasks[task_id].total

(***************************************************************************)
(* C7: if no Stop is ever applied to the task and every network operation  *)
(* terminates, a batch of N units with max_concurrency = k, 1 <= k < N,    *)
(* eventually returns, and completed is N when it does.                    *)
(***************************************************************************)
C7_BatchCompletes ==
    (max_concurrent >= 1 /\ max_concurrent < N)
        => <>(mainpc = "returned" /\ tasks[task_id].completed = N)

\* the batch has just returned, every unit counted, with fewer permits than
\* units and a Pause answered on the way
C7_Witness ==
    /\ max_concurrent >= 1
    /\ max_concurrent < N
    /\ mainpc = "returned"
    /\ tasks[task_id].completed = N
    /\ last_resp = RespOk

(***************************************************************************)
(* C9 as claimed: in every run, while units are in flight the control      *)
(* server is in its accept loop.                                           *)
(***************************************************************************)
ServerInLoop == server \in {"looptop", "accepting"}

C9_ServerAlwaysUp ==
    (BatchRunning /\ Holders # {}) => ServerInLoop

(***************************************************************************)
(* C9 as amended: the control server exists only in a run started with     *)
(* --add or --queue.  In such a run its thread is started before the batch *)
(* and, once its listener is bound, stays in the accept loop while units   *)
(* are in flight until the shutdown flag is set.  In a run with neither    *)
(* flag no server is started and no command is ever applied or answered.   *)
(***************************************************************************)
C9_ServerOnlyWithFlag ==
    /\ ~ipc_flag =>
          /\ server = "off"
          /\ conns = 0
          /\ last_resp = NoResponse
          /\ TaskPresent => tasks[task_id].status \in {Running, Completed}
    /\ (ipc_flag /\ mainpc \notin {"start", "exit"}) => server # "off"
    /\ server = "ended" => shutdown

\* with the flag: units are in flight, the server is in its loop, and a Stop
\* sent mid-batch has been applied and answered
C9_Witness ==
    /\ ipc_flag
    /\ BatchRunning
    /\ \E u \in Units : upc[u] = "net"
    /\ ServerInLoop
    /\ tasks[task_id].status = Stopped
    /\ last_resp = RespOk

(***************************************************************************)
(* C10: a Stop, Pause or Resume with id list L sets the status of every    *)
(* task in the store whose id is in L to Stopped, Paused or Running        *)
(* respectively, leaves every other task and every other field unchanged,  *)
(* creates no task for an absent id, and answers Ok even when no id of L   *)
(* is present.                                                             *)
(***************************************************************************)
C10_SetCommandEffect ==
    [][\A cmd \in Commands :
          (cmd.op \in SetOps /\ HandleCommand(cmd))
              => /\ DOMAIN tasks' = DOMAIN tasks
                 /\ \A id \in DOMAIN tasks :
                       tasks'[id] =
                          IF InIds(id, cmd.ids)
                          THEN [tasks[id] EXCEPT
                                   !.status = CASE cmd.op = "Stop" -> Stopped
                                                [] cmd.op = "Pause" -> Paused
                                                [] cmd.op = "Resume" -> Running]
                          ELSE tasks[id]
                 /\ last_resp' = RespOk]_vars

\* a Pause has been answered Ok mid-batch; the task is Paused and keeps its
\* counters
C10_Witness ==
    /\ TaskPresent
    /\ BatchRunning
    /\ tasks[task_id].status = Paused
    /\ tasks[task_id].completed >= 1
    /\ tasks[task_id].total = N
    /\ last_resp = RespOk

(***************************************************************************)
(* C11: the Pause and Resume handlers change only the status field.  A     *)
(* handled Pause or Resume leaves completed, total and the template of     *)
(* every task as they were and sets the status of the tasks it names;      *)
(* a Pause followed by a Resume leaves a present task Running with the     *)
(* counters the units gave it.                                             *)
(***************************************************************************)
C11_PauseResumeFrame ==
    /\ [](resumed => (TaskPresent /\ tasks[task_id].status = Running))
    /\ [][\A cmd \in Commands :
             (cmd.op \in {"Pause", "Resume"} /\ HandleCommand(cmd))
                 => /\ DOMAIN tasks' = DOMAIN tasks
                    /\ \A id \in DOMAIN tasks :
                          /\ tasks'[id].completed = tasks[id].completed
                          /\ tasks'[id].total = tasks[id].total
                          /\ tasks'[id].url_template = tasks[id].url_template
                          /\ tasks'[id].id = tasks[id].id
                          /\ InIds(id, cmd.ids) =>
                                tasks'[id].status =
                                   (IF cmd.op = "Pause" THEN Paused ELSE Running)
                    /\ \A ids \in IdLists :
                          LET after == command_store([op |-> "Resume", ids |-> ids],
                                                     tasks')
                          IN  \A id \in DOMAIN tasks :
                                 (cmd.op = "Pause" /\ InIds(id, cmd.ids)
                                     /\ InIds(id, ids))
                                    => after[id] = [tasks[id] EXCEPT !.status = Running]
             ]_vars

\* mid-batch, a unit has counted itself, the task was Paused and a Resume has
\* set it Running again with its counters intact
C11_Witness ==
    /\ resumed
    /\ BatchRunning
    /\ tasks[task_id].status = Running
    /\ tasks[task_id].completed >= 1
    /\ tasks[task_id].total = N
    /\ last_resp = RespOk

(***************************************************************************)
(* C12: List answers with exactly one (id, status text, template) tuple    *)
(* for each task in the store, carrying the task's current status;         *)
(* Status(id) answers with that single tuple when id is present and with   *)
(* an Error when it is absent; neither command changes the store.          *)
(***************************************************************************)
C12_ListAndStatus ==
    [][\A cmd \in Commands :
          (cmd.op \in {"List", "Status"} /\ HandleCommand(cmd))
              => /\ tasks' = tasks
                 /\ cmd.op = "List" =>
                       /\ last_resp'.type = "TaskList"
                       /\ Len(last_resp'.list) = Cardinality(DOMAIN tasks)
                       /\ \A id \in DOMAIN tasks :
                             Cardinality({i \in DOMAIN last_resp'.list :
                                             last_resp'.list[i][1] = id}) = 1
                       /\ \A i \in DOMAIN last_resp'.list :
                             LET e == last_resp'.list[i]
                             IN  /\ e[1] \in DOMAIN tasks
                                 /\ e[2] = to_string(tasks[e[1]].status)
                                 /\ e[3] = tasks[e[1]].url_template
                 /\ (cmd.op = "Status" /\ cmd.id \in DOMAIN tasks) =>
                       last_resp' =
                          [type |-> "TaskList",
                           list |-> << <<cmd.id, to_string(tasks[cmd.id].status),
                                         tasks[cmd.id].url_template>> >>]
                 /\ (cmd.op = "Status" /\ cmd.id \notin DOMAIN tasks) =>
                       last_resp'.type = "Error"]_vars

\* a query answered mid-batch after a Pause reports the one task as Paused
C12_Witness ==
    /\ TaskPresent
    /\ BatchRunning
    /\ tasks[task_id].status = Paused
    /\ last_resp = [type |-> "TaskList",
                    list |-> << <<task_id, "Paused", url_template>> >>]

\* a Status query for an id that is not in the store was answered
C12_WitnessAbsent ==
    /\ TaskPresent
    /\ last_resp.type = "Error"
    /\ last_resp.id \notin DOMAIN tasks

(***************************************************************************)
(* C13: for every accepted connection the handler reads one command line   *)
(* and writes one response line before the connection is closed, whatever  *)
(* the line holds.  handle_client returns the decode error of a line that  *)
(* is not an encoded command before it writes anything, so such a          *)
(* connection is closed with no response.                                  *)
(***************************************************************************)
C13_OneResponsePerConnection ==
    [][(HandleMalformed \/ \E cmd \in Commands : HandleCommand(cmd))
          => last_resp' # NoResponse]_vars

(***************************************************************************)
(* C14: the client reports "no running instance" when and only when        *)
(* connecting to the control channel fails; a response that cannot be read *)
(* or decoded is reported as a different outcome.  main prints the         *)
(* no-instance line for every error of send_command, so a failed write, a  *)
(* failed read and a line that does not decode are all reported as a       *)
(* missing instance.                                                       *)
(***************************************************************************)
C14_NoInstanceIffConnectFails ==
    cl_pc = "done" => (cl_out = NoInstance <=> ~cl_chan.connect)

(***************************************************************************)
(* C15 as claimed, at the return: when execute_download_task returns, the  *)
(* task's status is Completed.  The store's lock is released after the     *)
(* write of Completed and the summary is printed before the return, so a   *)
(* Stop, Pause or Resume handled in between leaves another status.         *)
(***************************************************************************)
C15_CompletedAtReturn ==
    [][ReturnStats => tasks[task_id].status = Completed]_vars

(***************************************************************************)
(* C15 as amended: execute_download_task writes Completed only after every *)
(* spawned unit has finished or been abandoned and every handle has been   *)
(* awaited; each awaited handle adds its unit's contribution to Stats, an  *)
(* abandoned unit nothing; the function then returns that Stats, and the   *)
(* status it leaves is Completed unless a Stop, Pause or Resume naming the *)
(* task was handled between the write and the return.                      *)
(***************************************************************************)
C15_CompletedAfterUnits ==
    /\ [][SetCompleted
            => /\ \A u \in Units : upc[u] \in {"done", "abandoned"}
               /\ joined = N
               /\ tasks'[task_id].status = Completed
               /\ UNCHANGED stats]_vars
    /\ [][JoinHandle
            => LET r == ret[joined + 1]
               IN  IF upc[joined + 1] = "abandoned"
                   THEN stats' = stats
                   ELSE /\ r.some
                        /\ stats'.total_bytes = stats.total_bytes + r.t[1]
                        /\ stats'.downloaded = stats.downloaded + r.t[2]
                        /\ stats'.ignored = stats.ignored + r.t[3]
                        /\ stats'.errors = stats.errors + r.t[4]
                        /\ stats'.not_found = stats.not_found + r.t[5]]_vars
    /\ [][ReturnStats
            => /\ joined = N
               /\ stats.downloaded + stats.ignored + stats.errors = Cardinality(Finished)
               /\ UNCHANGED <<stats, tasks>>]_vars
    /\ [][(mainpc = "summary" /\ tasks'[task_id].status # tasks[task_id].status)
            => \E cmd \in Commands :
                  cmd.op \in SetOps /\ InIds(task_id, cmd.ids) /\ HandleCommand(cmd)]_vars
    /\ [](mainpc \in {"start", "alloc", "add", "exec"}
            => \A id \in DOMAIN tasks : tasks[id].status # Completed)

\* the batch has returned after a Stop abandoned one unit and the other one
\* downloaded its payload; the status is Completed and Stats holds the one
\* contribution
C15_Witness ==
    /\ mainpc = "returned"
    /\ tasks[task_id].status = Completed
    /\ Abandoned # {}
    /\ stats.downloaded = 1
    /\ stats.total_bytes = PayloadLen

(***************************************************************************)
(* Definitions the properties of the adjacency merge share.                *)
(***************************************************************************)
\* the positions of the standalone "+" lists
plus_positions(raw) == {j \in DOMAIN raw : is_plus(raw[j])}

\* no leading "+", and every "+" list lies between two lists that are not "+"
well_formed(raw) ==
    \A j \in plus_positions(raw) :
        /\ j > 1
        /\ j < Len(raw)
        /\ ~is_plus(raw[j - 1])
        /\ ~is_plus(raw[j + 1])

\* the positions at which a maximal chain L0 + L1 + ... + Ln starts
chain_heads(raw) ==
    {i \in DOMAIN raw : ~is_plus(raw[i]) /\ (i = 1 \/ ~is_plus(raw[i - 1]))}

\* the k-th of them in input order
kth_head(raw, k) ==
    CHOOSE h \in chain_heads(raw) : Cardinality({g \in chain_heads(raw) : g <= h}) = k

\* the concatenation L0 L1 ... Ln of the chain that starts at i
RECURSIVE chain_concat(_, _)
chain_concat(raw, i) ==
    raw[i] \o (IF i + 1 <= Len(raw) /\ is_plus(raw[i + 1])
               THEN chain_concat(raw, i + 2)
               ELSE <<>>)

(***************************************************************************)
(* C16: the adjacency merge fails with an adjacency error for every list   *)
(* sequence whose first list is the standalone "+" list and for every      *)
(* sequence whose last list is one.  The inner loop appends the list after *)
(* a "+" without looking at it, so for the tokens a + + the second "+" is  *)
(* absorbed as an item and the merge succeeds.                             *)
(***************************************************************************)
C16_DanglingPlusFails ==
    expc = "merged" =>
        LET raw == raw_lists(wordlist)
        IN  (raw # <<>> /\ (is_plus(raw[1]) \/ is_plus(raw[Len(raw)])))
                => ~processed.ok

(***************************************************************************)
(* C17: for a well-formed list sequence the adjacency merge returns, in    *)
(* input order, one list per maximal chain L0 + L1 + ... + Ln, equal to    *)
(* the concatenation of L0..Ln, and every list not next to a "+"           *)
(* unchanged; the number of output lists is the number of input lists      *)
(* minus twice the number of "+" lists.                                    *)
(***************************************************************************)
C17_ChainsConcatenated ==
    expc = "merged" =>
        LET raw == raw_lists(wordlist)
        IN  well_formed(raw)
                => /\ processed.ok
                   /\ Len(processed.lists)
                         = Len(raw) - 2 * Cardinality(plus_positions(raw))
                   /\ Len(processed.lists) = Cardinality(chain_heads(raw))
                   /\ \A k \in DOMAIN processed.lists :
                         processed.lists[k] = chain_concat(raw, kth_head(raw, k))

\* the five tokens a,b + c + a were merged into the one list [a, b, c, a]
C17_Witness ==
    /\ expc = "merged"
    /\ Len(wordlist) = 5
    /\ Cardinality(plus_positions(raw_lists(wordlist))) = 2
    /\ processed = MergeOk(<< << <<"a">>, <<"b">>, <<"c">>, <<"a">> >> >>)

(***************************************************************************)
(* C18: in main's pipeline a standalone "+" argument between two wordlists *)
(* splices them before expansion, so every generated tuple has as many     *)
(* elements as lists remain after the adjacency merges, and no tuple       *)
(* contains the token "+".  main parses every argument by itself and never *)
(* calls process_wordlists, so the "+" stays a list of its own.            *)
(***************************************************************************)
C18_PlusSplicesInMain ==
    (expc = "combos" /\ well_formed(raw_lists(wordlist)))
        => \A i \in DOMAIN combinations.tuples :
              LET t == combinations.tuples[i]
              IN  /\ Len(t) = (IF range.given THEN 1 ELSE 0)
                                 + Len(process_wordlists(wordlist).lists)
                  /\ \A j \in DOMAIN t : t[j] # Plus

(***************************************************************************)
(* C19: for non-empty lists, generate_combinations in parallel mode with   *)
(* random off returns exactly len(lists[0]) tuples, and element j of tuple *)
(* i is lists[j][i mod len(lists[j])].                                     *)
(***************************************************************************)
C19_ParallelCycles ==
    (expc \in {"combos", "panicked"} /\ parallel /\ ~random
        /\ \A j \in DOMAIN all_items : all_items[j] # <<>>)
        => /\ combinations.ok
           /\ Len(combinations.tuples) = Len(all_items[1])
           /\ \A i \in 0..(Len(all_items[1]) - 1) :
                 /\ Len(combinations.tuples[i + 1]) = Len(all_items)
                 /\ \A j \in DOMAIN all_items :
                       combinations.tuples[i + 1][j]
                           = all_items[j][(i % Len(all_items[j])) + 1]

\* the range 0-2 went in parallel with the list a,b: the third tuple is
\* back at a
C19_Witness ==
    /\ expc = "combos"
    /\ parallel
    /\ ~random
    /\ combinations =
          CombosOk(<< << <<"0">>, <<"a">> >>, << <<"1">>, <<"b">> >>,
                      << <<"2">>, <<"a">> >> >>)

(***************************************************************************)
(* C20: for two or more non-empty lists in product mode with random off,   *)
(* generate_combinations returns as many tuples as the product of the list *)
(* lengths, one for every choice of one position per list, in list order   *)
(* with the rightmost list varying fastest: tuple number k holds, for list *)
(* j, the item at digit j of k written in the mixed radix of the lengths.  *)
(***************************************************************************)
\* the product of the lengths of the lists from position j on
RECURSIVE len_product(_, _)
len_product(lists, j) ==
    IF j > Len(lists) THEN 1 ELSE Len(lists[j]) * len_product(lists, j + 1)

C20_ProductOrder ==
    (expc = "combos" /\ ~parallel /\ ~random /\ Len(all_items) >= 2
        /\ \A j \in DOMAIN all_items : all_items[j] # <<>>)
        => /\ combinations.ok
           /\ Len(combinations.tuples) = len_product(all_items, 1)
           /\ \A k \in 0..(len_product(all_items, 1) - 1) :
                 /\ Len(combinations.tuples[k + 1]) = Len(all_items)
                 /\ \A j \in DOMAIN all_items :
                       combinations.tuples[k + 1][j]
                           = all_items[j][((k \div len_product(all_items, j + 1))
                                              % Len(all_items[j])) + 1]

\* the product of 0-2 and a,b: six tuples, b before the next number
C20_Witness ==
    /\ expc = "combos"
    /\ ~parallel
    /\ ~random
    /\ combinations =
          CombosOk(<< << <<"0">>, <<"a">> >>, << <<"0">>, <<"b">> >>,
                      << <<"1">>, <<"a">> >>, << <<"1">>, <<"b">> >>,
                      << <<"2">>, <<"a">> >>, << <<"2">>, <<"b">> >> >>)

(***************************************************************************)
(* C21: with the random flag set, generate_combinations returns a          *)
(* permutation of the tuple sequence it returns with the flag unset for    *)
(* the same lists and mode: the same tuples with the same multiplicities.  *)
(***************************************************************************)
\* how often t occurs in seq
occurrences(seq, t) == Cardinality({i \in DOMAIN seq : seq[i] = t})

C21_RandomPermutes ==
    (expc \in {"combos", "panicked"} /\ random)
        => LET unset == generate_ordered(all_items, parallel)
           IN  /\ combinations.ok = unset.ok
               /\ unset.ok =>
                     /\ Len(combinations.tuples) = Len(unset.tuples)
                     /\ \A i \in DOMAIN unset.tuples :
                           occurrences(combinations.tuples, unset.tuples[i])
                               = occurrences(unset.tuples, unset.tuples[i])

\* three tuples were generated and shuffled: the first generated one came
\* out last
C21_Witness ==
    /\ expc = "combos"
    /\ random
    /\ Len(combinations.tuples) = 3
    /\ combinations.tuples # generate_ordered(all_items, parallel).tuples
    /\ combinations.tuples[3] = generate_ordered(all_items, parallel).tuples[1]

(***************************************************************************)
(* C22: for every tuple and every position i of it, process_url_template   *)
(* replaces every occurrence of FUZZWi in the template by the tuple's i-th *)
(* value and by nothing else, for tuples of any arity (FUZZW10 receives    *)
(* the 10th value), substituted values are not substituted again, and a    *)
(* remaining FUZZR is then replaced by the first value.  The placeholders  *)
(* are replaced one after the other over the whole string, so FUZZW1 also  *)
(* matches the head of FUZZW10 and the text of a value put in earlier is   *)
(* searched for the later placeholders.                                    *)
(***************************************************************************)
C22_PlaceholdersOnly ==
    (expc = "urls" /\ ~exclude.given)
        => /\ Len(urls) = Len(combinations.tuples)
           /\ \A k \in DOMAIN combinations.tuples :
                 LET t == combinations.tuples[k]
                 IN  /\ (template = FUZZW \o <<"1">> /\ Len(t) >= 1
                            /\ ~contains(t[1], FUZZR))
                        => urls[k] = t[1]
                     /\ (template = FUZZW \o <<"1", "0">> /\ Len(t) >= 10)
                        => urls[k] = t[10]
                     /\ (template = FUZZR /\ Len(t) >= 1) => urls[k] = t[1]

(***************************************************************************)
(* C23: process_url_template returns the resolved targets in combination   *)
(* order with exactly those targets removed that equal, character for      *)
(* character, one of the comma- or space-separated exclusion tokens; a     *)
(* target that differs from a token only in case or whitespace is kept,    *)
(* and without an exclusion argument there is one target per combination.  *)
(***************************************************************************)
\* the exclusion tokens: the maximal runs of characters other than "," and " "
claimed_tokens(ex) ==
    IF ~ex.given THEN {}
    ELSE LET x == ex.text
             sep(i) == x[i] \in {",", " "}
         IN  {SubSeq(x, i, j) : <<i, j>> \in
                 {ij \in (DOMAIN x) \X (DOMAIN x) :
                     /\ ij[1] <= ij[2]
                     /\ \A m \in ij[1]..ij[2] : ~sep(m)
                     /\ (ij[1] = 1 \/ sep(ij[1] - 1))
                     /\ (ij[2] = Len(x) \/ sep(ij[2] + 1))}}

\* the positions of the combinations whose target is no exclusion token
kept_positions(tpl, combos, ex) ==
    {k \in DOMAIN combos : resolve(tpl, combos[k]) \notin claimed_tokens(ex)}

C23_ExcludesExactTargets ==
    expc = "urls" =>
        LET combos == combinations.tuples
            kept == kept_positions(template, combos, exclude)
        IN  /\ Len(urls) = Cardinality(kept)
            /\ \A k \in kept :
                  urls[Cardinality({m \in kept : m <= k})] = resolve(template, combos[k])
            /\ ~exclude.given => Len(urls) = Len(combos)

\* the targets a and A with the exclusion argument "a": only a is removed
C23_Witness ==
    /\ expc = "urls"
    /\ template = FUZZW \o <<"1">>
    /\ exclude = ExcludeArg(<<"a">>)
    /\ combinations.tuples = << << <<"a">> >>, << <<"A">> >> >>
    /\ urls = << <<"A">> >>

(***************************************************************************)
(* C24: the task ids handed out by the read-and-increment of next_task_id  *)
(* are pairwise distinct and strictly increasing in allocation order, for  *)
(* any number of allocations the counter can represent (at most its        *)
(* largest value) and for allocators running concurrently: the k-th id     *)
(* handed out is k.                                                        *)
(***************************************************************************)
C24_IdsIncrease ==
    \A i \in DOMAIN alloc_log :
        i <= IdMax =>
            /\ alloc_log[i] = i
            /\ \A j \in DOMAIN alloc_log : (i < j /\ j <= IdMax) => alloc_log[i] < alloc_log[j]

\* the counter's largest value has been handed out, the allocators each hold
\* an id of their own, and one of them is inside the block again
C24_Witness ==
    /\ Len(alloc_log) = IdMax
    /\ alloc_log[IdMax] = IdMax
    /\ \A a \in Allocators : alloc_id[a] > 0
    /\ \E a \in Allocators : alloc_pc[a] = "locked"

(***************************************************************************)
(* C25: a command line that does not decode leaves the task store          *)
(* unchanged and does not stop the accept loop, and the commands handled   *)
(* on later connections are still applied to the store and answered.       *)
(***************************************************************************)
C25_MalformedIsHarmless ==
    /\ [][HandleMalformed =>
             /\ tasks' = tasks
             /\ shutdown' = shutdown
             /\ server' = server]_vars
    /\ [][\A cmd \in Commands :
             (malformed /\ HandleCommand(cmd)) =>
                 /\ tasks' = command_store(cmd, tasks)
                 /\ last_resp' # NoResponse]_vars
    /\ [][(malformed /\ server = "accepting" /\ conns < MaxConns /\ Alive)
             => ENABLED ServerAccept]_vars

\* after a line that did not decode, a Pause was accepted, applied and answered
C25_Witness ==
    /\ malformed
    /\ TaskPresent
    /\ tasks[task_id].status = Paused
    /\ last_resp = RespOk
    /\ ServerInLoop

(***************************************************************************)
(* C26: every unit that is not abandoned increments the task's completed   *)
(* exactly once, whatever its outcome, and no increment is lost under any  *)
(* interleaving of the units and the control commands: completed changes   *)
(* only when a unit counts itself, then by one, a unit that has counted    *)
(* itself never does so again, and when execute_download_task returns      *)
(* completed is the number of units that were not abandoned.               *)
(***************************************************************************)
C26_NoLostIncrement ==
    /\ [](Returned => tasks[task_id].completed = N - Cardinality(Abandoned))
    /\ [][TaskPresent =>
             /\ \A u \in Units :
                   (upc[u] = "count" /\ upc'[u] # "count")
                       => /\ upc'[u] = "done"
                          /\ tasks'[task_id].completed = tasks[task_id].completed + 1
             /\ tasks'[task_id].completed # tasks[task_id].completed
                   => Cardinality({u \in Units : upc[u] = "count" /\ upc'[u] = "done"}) = 1
             /\ \A u \in Units : upc[u] = "done" => upc'[u] = "done"]_vars

\* two units ran under two permits, one download succeeded and one failed,
\* a control command was answered, and the batch returned with completed = N
C26_Witness ==
    /\ Returned
    /\ N >= 2
    /\ max_concurrent >= 2
    /\ Abandoned = {}
    /\ tasks[task_id].completed = N
    /\ stats.downloaded >= 1
    /\ stats.errors >= 1
    /\ last_resp = RespOk

C28_InFlightUnitFinishes ==
    /\ [][\A u \in Units :
             (upc[u] \in {"net", "count"} /\ upc'[u] # upc[u] /\ tasks[task_id].status = Stopped)
                 => IF upc[u] = "net"
                    THEN upc'[u] = "count" /\ res'[u] \in DownloadResults
                    ELSE /\ upc'[u] = "done"
                         /\ tasks'[task_id].completed = tasks[task_id].completed + 1
                         /\ tasks'[task_id].status = Stopped
                         /\ ret'[u] = unit_result(res[u])]_vars
    /\ [][joined' # joined =>
             /\ joined' = joined + 1
             /\ stats' = stats_add(stats, ret[joined + 1])]_vars
    /\ [](\A u \in Units : upc[u] = "done" => (ret[u] = Taken \/ ret[u].some))

\* the check of a unit read Running, a Stop was applied, and the unit has
\* since downloaded its target
C28_Witness ==
    /\ TaskPresent
    /\ tasks[task_id].status = Stopped
    /\ \E u \in Units :
          /\ upc[u] = "count"
          /\ seen[u] = StatusRead(Running)
          /\ res[u].kind = "ok"

(***************************************************************************)
(* C29: no status change is rejected: a Resume naming a task that is       *)
(* Completed answers Ok and makes it Running, and a Pause naming a task    *)
(* that is Completed or Stopped answers Ok and makes it Paused.            *)
(***************************************************************************)
C29_NoTransitionRejected ==
    [][\A cmd \in Commands :
          (/\ AppliesTo(cmd, task_id)
           /\ cmd.op \in {"Resume", "Pause"}
           /\ tasks[task_id].status \in {Completed, Stopped}
           /\ HandleCommand(cmd))
              => /\ (cmd.op = "Resume" /\ tasks[task_id].status = Completed)
                      => (tasks'[task_id].status = Running /\ last_resp' = RespOk)
                 /\ (cmd.op = "Pause" /\ tasks[task_id].status \in {Completed, Stopped})
                      => (tasks'[task_id].status = Paused /\ last_resp' = RespOk)]_vars

\* the batch has returned with every unit counted, and a Resume that did not
\* find the task Paused has made it Running
C29_Witness ==
    /\ mainpc = "cleanup"
    /\ tasks[task_id].status = Running
    /\ tasks[task_id].completed = tasks[task_id].total
    /\ ~resumed
    /\ last_resp = RespOk

(***************************************************************************)
(* C30: in download mode started with a non-empty content-type filter, a   *)
(* unit whose response is a success but whose content type matches no      *)
(* filter entry is counted as ignored (not downloaded, not error) and its  *)
(* payload is not saved.  Stated for the units that are about to do their  *)
(* network operation, over every such response.  The filter of the command *)
(* line never reaches download_file, which is given an empty list and      *)
(* saves the payload.                                                      *)
(***************************************************************************)
C30_FilteredIsIgnored ==
    \A u \in Units :
        upc[u] = "net" =>
            \A rsp \in Responses :
                (/\ rsp.sent
                 /\ is_success(rsp.status)
                 /\ ~(\E ct \in cli_content_types : ctype_contains(rsp.ctype, ct)))
                    => LET r == download_file(rsp, download_content_types)
                       IN  /\ r.kind = "err"
                           /\ unit_result(r) = Some(<<0, 0, 1, 0, 0>>)

(***************************************************************************)
(* C31: when execute_download_task returns, Stats.total_bytes is the sum   *)
(* of the payload lengths, that is of the bytes saved, of exactly the      *)
(* units counted as downloaded; the units of every other outcome add no    *)
(* bytes.  download_file returns the length the response declares, which   *)
(* is 0 for a response that declares none, and not the length of the body  *)
(* it wrote.                                                               *)
(***************************************************************************)
C31_TotalBytesIsSaved ==
    Returned => stats.total_bytes = written

(***************************************************************************)
(* C32: no unit failure aborts the batch and nothing is retried: every     *)
(* target is given to exactly one unit, a unit performs at most one        *)
(* network operation, and a unit whose download ends in not-found, error   *)
(* or I/O failure is counted once and leaves main and the other units      *)
(* where they are, with its permit back in the semaphore; a batch without  *)
(* abandoned units returns with every unit counted.                        *)
(***************************************************************************)
C32_FailuresDoNotAbort ==
    /\ [](DOMAIN upc = 1..N /\ spawned <= N)
    /\ [][\A u \in Units :
             /\ (upc'[u] = "acquire" /\ upc[u] # "acquire")
                   => (upc[u] = "unspawned" /\ u = spawned + 1 /\ spawned' = u)
             /\ (upc'[u] = "net" /\ upc[u] # "net") => upc[u] = "check"
             /\ (upc[u] = "net" /\ upc'[u] # "net") => upc'[u] = "count"
             /\ upc[u] \in {"count", "done"} => upc'[u] \in {upc[u], "done"}]_vars
    /\ [][\A u \in Units :
             (upc[u] = "count" /\ upc'[u] # "count" /\ res[u].kind = "err")
                 => /\ ret'[u].some
                    /\ ret'[u].t[1] = 0
                    /\ ret'[u].t[2] = 0
                    /\ ret'[u].t[3] + ret'[u].t[4] = 1
                    /\ tasks'[task_id].completed = tasks[task_id].completed + 1
                    /\ tasks'[task_id].status = tasks[task_id].status
                    /\ permits' = permits + 1
                    /\ mainpc' = mainpc
                    /\ \A v \in Units \ {u} : upc'[v] = upc[v]]_vars
    /\ []((Returned /\ Abandoned = {}) => tasks[task_id].completed = N)

\* under one permit, the first unit failed and returned its error tuple, and
\* the second unit has since downloaded its target
C32_Witness ==
    /\ N >= 2
    /\ max_concurrent = 1
    /\ upc[1] = "done"
    /\ ret[1] = Some(<<0, 0, 0, 1, 0>>)
    /\ upc[2] = "count"
    /\ res[2].kind = "ok"

(***************************************************************************)
(* C33: units are not processed in sequential batches of k: whenever a     *)
(* permit is free while a unit is waiting for one, that unit can start at  *)
(* once, whatever the other units are doing, so a state with a free permit *)
(* and a waiting unit does not last.                                       *)
(***************************************************************************)
PermitFreeAndWaiting ==
    Alive /\ permits > 0 /\ \E u \in Units : upc[u] = "acquire"

C33_NoSequentialBatches ==
    /\ [](\A u \in Units :
            (Alive /\ permits > 0 /\ upc[u] = "acquire") => ENABLED Acquire(u))
    /\ PermitFreeAndWaiting ~> ~PermitFreeAndWaiting

\* under two permits the first unit has finished and returned its permit,
\* the second is in its network operation and the third is waiting
C33_Witness ==
    /\ N = 3
    /\ max_concurrent = 2
    /\ permits = 1
    /\ upc[1] = "done"
    /\ upc[2] = "net"
    /\ upc[3] = "acquire"

(***************************************************************************)
(* C34 as claimed: in web-request mode a unit whose request times out, or  *)
(* uses an unknown method, or fails in transport, is counted as failed      *)
(* without aborting the batch, and when the mode returns successful +      *)
(* failed is the number of targets.  Both loops of the mode leave early    *)
(* once the shutdown flag is set, so after Ctrl+C the mode returns with    *)
(* targets that were never spawned or never counted.                       *)
(***************************************************************************)
C34_CountsAllTargets ==
    mainpc = "returned" => successful + failed = N

(***************************************************************************)
(* C34, amended: a unit whose request times out, uses an unknown method or *)
(* fails in transport returns (false, 0) and is counted as failed when its *)
(* handle is awaited, without touching main or the other units; successful *)
(* + failed is at every moment the number of handles awaited, each counted *)
(* once, and is the number of targets when the mode returns with the       *)
(* shutdown flag still clear.                                              *)
(***************************************************************************)
C34_CountsAwaited ==
    /\ [](successful + failed = joined /\ joined <= spawned /\ spawned <= N)
    /\ []((mainpc = "returned" /\ ~shutdown) => successful + failed = N)
    /\ [][\A u \in Units :
             (upc[u] = "net" /\ upc'[u] # "net")
                 => /\ upc'[u] = "done"
                    /\ ret'[u] \in {web_result(a) : a \in WebAttempts}
                    /\ mainpc' = mainpc
                    /\ \A v \in Units \ {u} : upc'[v] = upc[v]]_vars
    /\ [][joined' # joined =>
             /\ joined' = joined + 1
             /\ ret[joined'] = Some(<<FALSE, 0>>)
                   => (failed' = failed + 1 /\ successful' = successful)
             /\ (ret[joined'].some /\ ret[joined'].t[1])
                   => (successful' = successful + 1 /\ failed' = failed)]_vars

\* the mode returned with the flag clear, one request counted as failed and
\* one as successful
C34_Witness ==
    /\ mainpc = "returned"
    /\ ~shutdown
    /\ N = 2
    /\ failed = 1
    /\ successful = 1

(***************************************************************************)
(* C40: web-request mode never reads or writes the task store: only a      *)
(* handled command changes the store once the task is in it, the units     *)
(* acquire and request whatever the task's status is and none is           *)
(* abandoned, and the task's completed stays 0 and its status is never     *)
(* Completed: it is Running unless a control command changed it.           *)
(***************************************************************************)
C40_WebIgnoresStore ==
    /\ [](TaskPresent =>
            /\ tasks[task_id].completed = 0
            /\ tasks[task_id].status \in {Running, Paused, Stopped}
            /\ ~ipc_flag => tasks[task_id].status = Running)
    /\ [][(TaskPresent /\ tasks' # tasks)
             => /\ conns' = conns - 1
                /\ \E cmd \in Commands : tasks' = command_store(cmd, tasks)]_vars
    /\ [](\A u \in Units :
            /\ upc[u] # "abandoned"
            /\ (Alive /\ upc[u] = "acquire" /\ permits > 0) => ENABLED WebAcquire(u)
            /\ (Alive /\ upc[u] = "net") => ENABLED WebRequest(u))

\* a Stop was applied while the mode was spawning its units; the mode has
\* returned with both units counted and the task still Stopped
C40_Witness ==
    /\ mainpc = "returned"
    /\ N = 2
    /\ stop_active
    /\ tasks[task_id].status = Stopped
    /\ successful + failed = N

(***************************************************************************)
(* C35: after the shutdown flag is set, the accept loop of the control     *)
(* server eventually observes it and exits, even if no further client      *)
(* connects.  listener.accept() blocks until a client connects, so the     *)
(* loop does not come back to its test of the flag.                        *)
(***************************************************************************)
C35_ServerObservesShutdown ==
    (shutdown /\ ServerInLoop) ~> (server = "ended")

(***************************************************************************)
(* C36: after a Stop is applied to a running batch and no Pause or Resume  *)
(* follows, completed grows by at most max_concurrency beyond its value at *)
(* the moment of the Stop, because only the units that hold a permit and   *)
(* are past their check can still finish.  Stated through the units in     *)
(* flight: there are never more of them than max_concurrency, and while    *)
(* the task stays Stopped completed plus their number does not grow.       *)
(***************************************************************************)
InFlight == {u \in Units : upc[u] \in {"net", "count"}}

C36_StopBoundsCompleted ==
    /\ [](Cardinality(InFlight) <= max_concurrent)
    /\ [][(TaskPresent /\ tasks[task_id].status = Stopped
              /\ tasks'[task_id].status = Stopped)
             => /\ tasks'[task_id].completed + Cardinality(InFlight')
                      <= tasks[task_id].completed + Cardinality(InFlight)
                /\ InFlight' \subseteq InFlight]_vars

\* a Stop found nothing counted and two units in flight under two permits;
\* both have since downloaded and are about to count themselves
C36_Witness ==
    /\ N = 2
    /\ stop_active
    /\ tasks[task_id].status = Stopped
    /\ max_concurrent = 2
    /\ tasks[task_id].completed = 0
    /\ upc[1] = "count"
    /\ upc[2] = "count"

(***************************************************************************)
(* C37 as claimed: units abandoned while the task was Stopped are never    *)
(* executed later, so at return completed plus the number of abandoned     *)
(* units is total, and a batch with abandoned units ends with status       *)
(* Completed although completed < total.  The status is written before     *)
(* the return, and a command handled in between replaces it.               *)
(***************************************************************************)
C37_AbandonedEndsCompleted ==
    (Returned /\ Abandoned # {})
        => /\ tasks[task_id].completed + Cardinality(Abandoned) = tasks[task_id].total
           /\ tasks[task_id].completed < tasks[task_id].total
           /\ tasks[task_id].status = Completed

(***************************************************************************)
(* C37, amended: an abandoned unit stays abandoned, also after a Resume,   *)
(* which lets through only units that have not made their check yet; when  *)
(* execute_download_task returns, completed plus the number of abandoned   *)
(* units is total; and after its join loop it writes Completed whether or  *)
(* not units were abandoned, so that the task is Completed with completed  *)
(* < total until a later command replaces the status.                      *)
(***************************************************************************)
C37_AbandonedStayAbandoned ==
    /\ [][\A u \in Units :
             /\ upc[u] = "abandoned" => upc'[u] = "abandoned"
             /\ (upc'[u] = "net" /\ upc[u] # "net")
                   => (upc[u] = "check" /\ tasks[task_id].status # Stopped)]_vars
    /\ [](Returned =>
            tasks[task_id].completed + Cardinality(Abandoned) = tasks[task_id].total)
    /\ [][(mainpc = "exec" /\ mainpc' = "summary")
             => /\ tasks'[task_id].status = Completed
                /\ tasks'[task_id].completed = tasks[task_id].total - Cardinality(Abandoned)]_vars
    /\ [][(mainpc = "summary" /\ tasks'[task_id].status # tasks[task_id].status)
             => conns' = conns - 1]_vars

\* under one permit a unit was abandoned and the other one got the permit
\* afterwards and passed its check: the task had been resumed
C37_Witness ==
    /\ N = 2
    /\ max_concurrent = 1
    /\ \E u, v \in Units :
          /\ upc[u] = "abandoned"
          /\ upc[v] = "count"
          /\ seen[v] = StatusRead(Running)

(***************************************************************************)
(* C38: with every network operation returning, execute_download_task      *)
(* returns under every interleaving of Stop, Pause and Resume commands if  *)
(* max_concurrency >= 1, no unit waiting for a lock of the store while it  *)
(* holds one; with max_concurrency = 0 and at least one target no unit     *)
(* ever acquires a permit and the call never returns.  (main never calls   *)
(* it with an empty list of targets.)                                      *)
(***************************************************************************)
C38_ReturnsIffPermits ==
    /\ (max_concurrent >= 1) => <>(mainpc = "returned")
    /\ []((max_concurrent = 0)
            => /\ mainpc \in {"start", "alloc", "add", "exec"}
               /\ joined = 0
               /\ \A u \in Units : upc[u] \in {"unspawned", "acquire"})

\* the batch has returned after a Stop abandoned one of its two units
C38_Witness ==
    /\ mainpc = "returned"
    /\ N = 2
    /\ max_concurrent = 1
    /\ stop_active
    /\ Cardinality(Abandoned) = 1

(***************************************************************************)
(* handle_command under the lock of the store: every handler thread runs   *)
(* one command; the Stop/Pause/Resume arms hold one write guard over the   *)
(* whole `for id in ids` loop, the List and Status arms and a unit's       *)
(* cancellation check hold a read guard.  The store holds two tasks, so    *)
(* that a command can name several present tasks.                          *)
(***************************************************************************)
MaxHandlers == 2
Handlers == 1..MaxHandlers

\* the store the handlers work on: tasks 1 and 2, both Running
TwoTasks == add_task(add_task(<<>>, TaskInfo(1, 1)), TaskInfo(2, 1))

\* what the threads ask of the store: commands naming both tasks or one,
\* List, Status, and the cancellation check of a unit of task 1
LockCommands ==
    [op : SetOps, ids : {<<1, 2>>, <<2>>}]
        \cup {[op |-> "List"], [op |-> "Status", id |-> 2], [op |-> "Check"]}

RespCheck(stopped) == [type |-> "Check", stopped |-> stopped]

\* mutant: a read guard is granted while a writer holds the lock
can_read_always(l) == TRUE

\* RwLock::blocking_read / read().await: granted while no writer holds the lock
can_read(l) == l.writer = 0

\* RwLock::blocking_write: granted while nobody holds the lock
can_write(l) == l.writer = 0 /\ l.readers = {}

LockInit ==
    /\ IdleWith(TwoTasks)
    /\ ClientIdle
    /\ ExpandIdle
    /\ TemplateIdle
    /\ AllocIdle
    /\ rwlock = Unlocked
    /\ handlers \in [Handlers -> [pc : {"start"}, cmd : LockCommands, pos : {1},
                                   resp : {NoResponse}]]
    /\ stable = TwoTasks

everything_but_store ==
    <<ipc_flag, N, max_concurrent, mainvars, shutdown, srvvars, unitvars, joinvars,
      histvars, webvars, clientvars, expandvars, tplvars, allocvars>>

\* ipc.rs 161, 169, 177: let mut task_map = downzer.tasks.blocking_write()
WriteLock(h) ==
    /\ handlers[h].pc = "start"
    /\ handlers[h].cmd.op \in SetOps
    /\ can_write(rwlock)
    /\ rwlock' = [rwlock EXCEPT !.writer = h]
    /\ handlers' = [handlers EXCEPT ![h].pc = "loop"]
    /\ UNCHANGED <<everything_but_store, tasks, stable>>

\* one iteration of `for id in ids`: get_mut(&id), task.status = ...
WriteOne(h) ==
    /\ handlers[h].pc = "loop"
    /\ handlers[h].pos <= Len(handlers[h].cmd.ids)
    /\ tasks' = set_task_status(tasks, handlers[h].cmd.ids[handlers[h].pos],
                                op_status(handlers[h].cmd.op))
    /\ handlers' = [handlers EXCEPT ![h].pos = @ + 1]
    /\ UNCHANGED <<everything_but_store, rwlock, stable>>

\* the loop is over: the guard is dropped at the end of the arm's block and
\* the arm yields IpcResponse::Ok
WriteUnlock(h) ==
    /\ handlers[h].pc = "loop"
    /\ handlers[h].pos > Len(handlers[h].cmd.ids)
    /\ rwlock' = [rwlock EXCEPT !.writer = IF @ = h THEN 0 ELSE @]
    /\ handlers' = [handlers EXCEPT ![h].pc = "done", ![h].resp = RespOk]
    /\ stable' = tasks
    /\ UNCHANGED <<everything_but_store, tasks>>

\* ipc.rs 185, 194: downzer.tasks.blocking_read(); downzer.rs 392: read().await
ReadLock(h) ==
    /\ handlers[h].pc = "start"
    /\ handlers[h].cmd.op \notin SetOps
    /\ can_read(rwlock)
    /\ rwlock' = [rwlock EXCEPT !.readers = @ \cup {h}]
    /\ handlers' = [handlers EXCEPT ![h].pc = "reading"]
    /\ UNCHANGED <<everything_but_store, tasks, stable>>

\* the List and Status arms build their response from the store, the unit
\* compares the status of its task with Stopped; the guard is dropped
ReadUnlock(h) ==
    /\ handlers[h].pc = "reading"
    /\ \E order \in iter_orders(tasks) :
          handlers' = [handlers EXCEPT
                          ![h].pc = "done",
                          ![h].resp = IF handlers[h].cmd.op = "Check"
                                      THEN RespCheck(is_stopped(tasks, 1))
                                      ELSE command_response(handlers[h].cmd, tasks,
                                                            order)]
    /\ rwlock' = [rwlock EXCEPT !.readers = @ \ {h}]
    /\ UNCHANGED <<everything_but_store, tasks, stable>>

LockNext ==
    \E h \in Handlers :
        \/ WriteLock(h)
        \/ WriteOne(h)
        \/ WriteUnlock(h)
        \/ ReadLock(h)
        \/ ReadUnlock(h)

LockSpec == LockInit /\ [][LockNext]_vars

\* the named present tasks of a command that a store shows updated
Updated(cmd, t) == {id \in DOMAIN t : InIds(id, cmd.ids) /\ t[id].status = op_status(cmd.op)}

(***************************************************************************)
(* C39: a Stop, Pause or Resume command naming several ids is applied      *)
(* atomically with respect to every other access of the store: while a     *)
(* List, a Status or a unit's cancellation check holds its guard the store *)
(* is the one the last finished command left (no command is part-way       *)
(* through its ids) and the answer is computed from that store; only the   *)
(* thread holding the write guard changes the store; and every command     *)
(* leaves the store that handle_command yields, as one step, from the      *)
(* store the command before it left: the commands take effect one after    *)
(* another in the order in which they took the guard.                      *)
(***************************************************************************)
C39_CommandsAtomic ==
    /\ [](\A h \in Handlers :
            handlers[h].pc = "reading"
                => /\ tasks = stable
                   /\ \A g \in Handlers : handlers[g].pc # "loop")
    /\ [][\A h \in Handlers :
            /\ (handlers[h].pc = "reading" /\ handlers'[h].pc = "done")
                  => \/ handlers'[h].resp = RespCheck(is_stopped(stable, 1))
                     \/ \E order \in iter_orders(stable) :
                           /\ handlers[h].cmd.op # "Check"
                           /\ handlers'[h].resp =
                                  command_response(handlers[h].cmd, stable, order)
            /\ (handlers[h].pc = "loop" /\ handlers'[h].pc = "done")
                  => /\ tasks = command_store(handlers[h].cmd, stable)
                     /\ stable' = tasks
            /\ (handlers[h].pc = "loop" /\ tasks' # tasks)
                  => rwlock = [writer |-> h, readers |-> {}]]_vars
    /\ [][tasks' # tasks
            => \E h \in Handlers : handlers[h].pc = "loop" /\ rwlock.writer = h]_vars

\* a Stop naming both tasks has updated task 1 and not yet task 2, and a
\* List that arrived meanwhile is waiting for its guard
C39_Witness ==
    \E h, g \in Handlers :
        /\ handlers[h].pc = "loop"
        /\ handlers[h].cmd = [op |-> "Stop", ids |-> <<1, 2>>]
        /\ Updated(handlers[h].cmd, tasks) = {1}
        /\ handlers[g].cmd.op = "List"
        /\ handlers[g].pc = "start"
        /\ ~ENABLED ReadLock(g)

=============================================================================
